---- MODULE Spec2Model ----
(***************************************************************************)
(* X01 darts scoring engine (DartsScoringEngine) as a state machine.       *)
(*                                                                         *)
(* A caller holds one PlayerState and replaces it by the result of         *)
(* applyThrow, resetForNewLeg or resetForNewMatch.  The state keeps the    *)
(* PlayerState before the last operation (prev), the operation (op), its   *)
(* input (visit) and the ThrowResult it returned (result).  legStart is    *)
(* the length of matchHistory at the start of the leg, wonAt the legs held *)
(* when isMatchWon was first returned and checkouts the scores held before *)
(* the leg-winning throws of the match.  heap is the object store of       *)
(* SpecHeap, where the engine's objects have identities; bot is the bot of *)
(* SpecBot with the score it faces and the score it generated; busts       *)
(* counts the busted visits of the leg in SpecBusts; app is the state of   *)
(* the App component in SpecApp; online is the match row and the calls in  *)
(* flight of SpecOnline.                                                   *)
(*                                                                         *)
(* Encodings:                                                              *)
(*   - an optional / nullable field (best_leg, highest_checkout,           *)
(*     visit_history) is <<>> when null or absent and <<x>> when set;      *)
(*   - stats.average is kept in hundredths (average = 10000 is 100.00).    *)
(***************************************************************************)
EXTENDS Integers, Sequences, FiniteSets, TLC

VARIABLES config, player, prev, op, visit, result, legStart, wonAt, checkouts, heap, bot,
          busts, app, online

vars == <<config, player, prev, op, visit, result, legStart, wonAt, checkouts, heap, bot,
          busts, app, online>>

(* ------------------------------ bounds --------------------------------- *)

\* most visits recorded in matchHistory
MaxVisits == 3

\* most busted visits in one leg
MaxBusts == 1

\* largest targetLegs a match is configured with
MaxTargetLegs == 3

\* most visits recorded in the long leg of SpecLongLeg
MaxLongVisits == 40

\* largest sum of the visits recorded in the long leg of SpecLongLeg
MaxLongTotal == 23

\* most bucket increments made by direct calls of updateStats in SpecStats
MaxStatUpdates == 2

(* ----------------------------- constants ------------------------------- *)

MAX_SCORE == 180

VALID_CHECKOUTS ==
    ((2..58) \cup (60..68) \cup (70..98) \cup (100..108) \cup (110..158))
        \cup {160, 161, 164, 167, 170}

\* starting scores of the modelled matches (two of STARTING_SCORES)
StartingScores == {121, 170}

MatchTypes == {"first_to", "best_of"}

\* visit totals a caller may pass to applyThrow, out-of-range ones included
Visits == {0 - 1, 0, 11, 50, 70, 120, 121, 159, 170, 180, 181}

Absent == <<>>

Some(x) == <<x>>

INITIAL_MATCH_STATS ==
    [ scores_65_plus   |-> 0,
      scores_90_plus   |-> 0,
      scores_100_plus  |-> 0,
      scores_140_plus  |-> 0,
      scores_170_plus  |-> 0,
      scores_180       |-> 0,
      best_leg         |-> Absent,
      average          |-> 0,
      highest_checkout |-> Absent,
      visit_history    |-> Absent ]

(* ------------------------------ helpers -------------------------------- *)

RECURSIVE SumSeq(_)
SumSeq(s) == IF s = <<>> THEN 0 ELSE Head(s) + SumSeq(Tail(s))

\* Math.ceil(n / 2) for an integer n >= 0
CeilHalf(n) == (n + 1) \div 2

\* Math.floor(n / 2) for an integer n >= 0
FloorHalf(n) == n \div 2

\* Math.min and Math.max of two integers
Min(a, b) == IF a <= b THEN a ELSE b

Max(a, b) == IF a >= b THEN a ELSE b

(* --------------------------- DartsScoringEngine ------------------------ *)

\* variant: best_of needs more than half of targetLegs (floor + 1)
legsNeeded_MoreThanHalf ==
    IF config.matchType = "first_to"
        THEN config.targetLegs
        ELSE FloorHalf(config.targetLegs) + 1

legsNeeded ==
    IF config.matchType = "first_to"
        THEN config.targetLegs
        ELSE CeilHalf(config.targetLegs)

createPlayerState(name, id) ==
    [ id           |-> id,
      name         |-> name,
      score        |-> config.startingScore,
      legs         |-> 0,
      sets         |-> 0,
      history      |-> <<>>,
      matchHistory |-> <<>>,
      stats        |-> INITIAL_MATCH_STATS,
      dartsThrown  |-> 0 ]

\* variant: a remaining score of 1 is not treated as a bust
isBust_NegativeOnly(newScore) == newScore < 0

\* variant: a negative remaining score is not treated as a bust
isBust_OneOnly(newScore) == newScore = 1

\* variant: the remaining score that cannot be finished is taken to be 2
isBust_OffByOne(newScore) == newScore < 0 \/ newScore = 2

isBust(newScore) == newScore < 0 \/ newScore = 1

\* variant: a checkout is only accepted from a score of VALID_CHECKOUTS
processThrow_StrictCheckout(p, scoreThrown) ==
    IF scoreThrown < 0 \/ scoreThrown > MAX_SCORE
    THEN [ success |-> FALSE, newScore |-> p.score, isBust |-> FALSE,
           isLegWon |-> FALSE, isMatchWon |-> FALSE,
           message |-> "Invalid score" ]
    ELSE LET newScore == p.score - scoreThrown IN
         IF isBust(newScore)
         THEN [ success |-> TRUE, newScore |-> p.score, isBust |-> TRUE,
                isLegWon |-> FALSE, isMatchWon |-> FALSE,
                message |-> "Bust!" ]
         ELSE IF newScore = 0 /\ p.score \in VALID_CHECKOUTS
         THEN LET isMatchWon == p.legs + 1 >= legsNeeded IN
              [ success |-> TRUE, newScore |-> 0, isBust |-> FALSE,
                isLegWon |-> TRUE, isMatchWon |-> isMatchWon,
                message |-> IF isMatchWon THEN "Match won!" ELSE "Leg won!" ]
         ELSE [ success |-> TRUE, newScore |-> newScore, isBust |-> FALSE,
                isLegWon |-> FALSE, isMatchWon |-> FALSE,
                message |-> "" ]

\* variant: negative visit scores are not rejected
processThrow_NoLowerBound(p, scoreThrown) ==
    IF scoreThrown > MAX_SCORE
    THEN [ success |-> FALSE, newScore |-> p.score, isBust |-> FALSE,
           isLegWon |-> FALSE, isMatchWon |-> FALSE,
           message |-> "Invalid score" ]
    ELSE LET newScore == p.score - scoreThrown IN
         IF isBust(newScore)
         THEN [ success |-> TRUE, newScore |-> p.score, isBust |-> TRUE,
                isLegWon |-> FALSE, isMatchWon |-> FALSE,
                message |-> "Bust!" ]
         ELSE IF newScore = 0
         THEN LET isMatchWon == p.legs + 1 >= legsNeeded IN
              [ success |-> TRUE, newScore |-> 0, isBust |-> FALSE,
                isLegWon |-> TRUE, isMatchWon |-> isMatchWon,
                message |-> IF isMatchWon THEN "Match won!" ELSE "Leg won!" ]
         ELSE [ success |-> TRUE, newScore |-> newScore, isBust |-> FALSE,
                isLegWon |-> FALSE, isMatchWon |-> FALSE,
                message |-> "" ]

\* variant: a bust reports the remaining score the visit would have left
processThrow_BustNewScore(p, scoreThrown) ==
    IF scoreThrown < 0 \/ scoreThrown > MAX_SCORE
    THEN [ success |-> FALSE, newScore |-> p.score, isBust |-> FALSE,
           isLegWon |-> FALSE, isMatchWon |-> FALSE,
           message |-> "Invalid score" ]
    ELSE LET newScore == p.score - scoreThrown IN
         IF isBust(newScore)
         THEN [ success |-> TRUE, newScore |-> newScore, isBust |-> TRUE,
                isLegWon |-> FALSE, isMatchWon |-> FALSE,
                message |-> "Bust!" ]
         ELSE IF newScore = 0
         THEN LET isMatchWon == p.legs + 1 >= legsNeeded IN
              [ success |-> TRUE, newScore |-> 0, isBust |-> FALSE,
                isLegWon |-> TRUE, isMatchWon |-> isMatchWon,
                message |-> IF isMatchWon THEN "Match won!" ELSE "Leg won!" ]
         ELSE [ success |-> TRUE, newScore |-> newScore, isBust |-> FALSE,
                isLegWon |-> FALSE, isMatchWon |-> FALSE,
                message |-> "" ]

processThrow(p, scoreThrown) ==
    IF scoreThrown < 0 \/ scoreThrown > MAX_SCORE
    THEN [ success |-> FALSE, newScore |-> p.score, isBust |-> FALSE,
           isLegWon |-> FALSE, isMatchWon |-> FALSE,
           message |-> "Invalid score" ]
    ELSE LET newScore == p.score - scoreThrown IN
         IF isBust(newScore)
         THEN [ success |-> TRUE, newScore |-> p.score, isBust |-> TRUE,
                isLegWon |-> FALSE, isMatchWon |-> FALSE,
                message |-> "Bust!" ]
         ELSE IF newScore = 0
         THEN LET isMatchWon == p.legs + 1 >= legsNeeded IN
              [ success |-> TRUE, newScore |-> 0, isBust |-> FALSE,
                isLegWon |-> TRUE, isMatchWon |-> isMatchWon,
                message |-> IF isMatchWon THEN "Match won!" ELSE "Leg won!" ]
         ELSE [ success |-> TRUE, newScore |-> newScore, isBust |-> FALSE,
                isLegWon |-> FALSE, isMatchWon |-> FALSE,
                message |-> "" ]

checkMatchWin(legs) == legs >= legsNeeded

getLegsNeeded == legsNeeded

\* variant: the 170+ bucket has no upper limit, so 180 is counted twice
updateStats_Cumulative(stats, scoreThrown) ==
    [ stats EXCEPT
        !.scores_180      = @ + (IF scoreThrown = 180 THEN 1 ELSE 0),
        !.scores_170_plus = @ + (IF scoreThrown >= 170 THEN 1 ELSE 0),
        !.scores_140_plus = @ + (IF scoreThrown >= 140 /\ scoreThrown < 170 THEN 1 ELSE 0),
        !.scores_100_plus = @ + (IF scoreThrown >= 100 /\ scoreThrown < 140 THEN 1 ELSE 0),
        !.scores_90_plus  = @ + (IF scoreThrown >= 90 /\ scoreThrown < 100 THEN 1 ELSE 0),
        !.scores_65_plus  = @ + (IF scoreThrown >= 65 /\ scoreThrown < 90 THEN 1 ELSE 0) ]

updateStats(stats, scoreThrown) ==
    [ stats EXCEPT
        !.scores_180      = @ + (IF scoreThrown = 180 THEN 1 ELSE 0),
        !.scores_170_plus = @ + (IF scoreThrown >= 170 /\ scoreThrown < 180 THEN 1 ELSE 0),
        !.scores_140_plus = @ + (IF scoreThrown >= 140 /\ scoreThrown < 170 THEN 1 ELSE 0),
        !.scores_100_plus = @ + (IF scoreThrown >= 100 /\ scoreThrown < 140 THEN 1 ELSE 0),
        !.scores_90_plus  = @ + (IF scoreThrown >= 90 /\ scoreThrown < 100 THEN 1 ELSE 0),
        !.scores_65_plus  = @ + (IF scoreThrown >= 65 /\ scoreThrown < 90 THEN 1 ELSE 0) ]

(* ------------------- IEEE-754 double arithmetic ------------------------ *)
(* calculateAverage evaluates Math.round((total / length) * 100) in doubles. *)
(* A double is [m |-> bits, e |-> k]: the integer written by the bit string  *)
(* m (most significant bit first, at most 53 bits) times 2^k.               *)

\* bits of a double's significand
MantissaBits == 53

\* 8-bit groups produced by the long division of total by length * 2^16
QuotientGroups == 10

Zeros(k) == [ i \in 1..k |-> 0 ]

\* the w low bits of v, most significant first
BitsOf(v, w) == [ i \in 1..w |-> (v \div 2^(w - i)) % 2 ]

RECURSIVE BitsVal(_)
BitsVal(bits) ==
    IF bits = <<>> THEN 0
    ELSE 2 * BitsVal(SubSeq(bits, 1, Len(bits) - 1)) + bits[Len(bits)]

\* bit string without its leading zeros
Normalize(bits) ==
    IF \A i \in 1..Len(bits) : bits[i] = 0 THEN <<>>
    ELSE LET p == CHOOSE i \in 1..Len(bits) :
                      bits[i] = 1 /\ \A j \in 1..(i - 1) : bits[j] = 0
         IN SubSeq(bits, p, Len(bits))

\* binary digits of rem / d (rem < d), 8 per step, then a sticky bit
RECURSIVE DivBits(_, _, _)
DivBits(rem, d, k) ==
    IF k = 0 THEN << IF rem > 0 THEN 1 ELSE 0 >>
    ELSE LET v == (256 * rem) \div d IN
         BitsOf(v, 8) \o DivBits(256 * rem - v * d, d, k - 1)

IncBits(bits) ==
    IF \A i \in 1..Len(bits) : bits[i] = 1 THEN <<1>> \o Zeros(Len(bits))
    ELSE LET p == CHOOSE i \in 1..Len(bits) :
                      bits[i] = 0 /\ \A j \in (i + 1)..Len(bits) : bits[j] = 1
         IN [ i \in 1..Len(bits) |->
                IF i < p THEN bits[i] ELSE IF i = p THEN 1 ELSE 0 ]

\* the double nearest to int(bits) * 2^e (bits has a leading 1), ties to even
RoundToDouble(bits, e) ==
    IF Len(bits) <= MantissaBits THEN [ m |-> bits, e |-> e ]
    ELSE LET m0     == SubSeq(bits, 1, MantissaBits)
             rest   == SubSeq(bits, MantissaBits + 1, Len(bits))
             sticky == \E i \in 2..Len(rest) : rest[i] = 1
             up     == rest[1] = 1 /\ (sticky \/ m0[MantissaBits] = 1)
             m1     == IF up THEN IncBits(m0) ELSE m0
             e1     == e + Len(rest)
         IN IF Len(m1) > MantissaBits
                THEN [ m |-> SubSeq(m1, 1, MantissaBits), e |-> e1 + 1 ]
                ELSE [ m |-> m1, e |-> e1 ]

\* the double total / length, for 0 < total < length * 2^16
DivDouble(total, length) ==
    LET q == DivBits(total, length * 65536, QuotientGroups)
        n == Normalize(q)
    IN RoundToDouble(n, 16 - Len(q))

\* bits * c for a bit string of 14-bit limbs and 0 < c < 2^16
RECURSIVE MulLimbs(_, _, _, _)
MulLimbs(bits, limbs, c, carry) ==
    IF limbs = 0 THEN BitsOf(carry, 31)
    ELSE LET v == BitsVal(SubSeq(bits, 14 * limbs - 13, 14 * limbs)) * c + carry IN
         MulLimbs(bits, limbs - 1, c, v \div 16384) \o BitsOf(v % 16384, 14)

\* the double x * c for an integer 0 < c < 2^16
MulDouble(x, c) ==
    LET padded == Zeros(56 - Len(x.m)) \o x.m IN
    RoundToDouble(Normalize(MulLimbs(padded, 4, c, 0)), x.e)

\* a >= b for bit strings without leading zeros
BitsGeq(a, b) ==
    IF Len(a) # Len(b) THEN Len(a) > Len(b)
    ELSE \/ a = b
         \/ \E i \in 1..Len(a) :
               /\ a[i] > b[i]
               /\ \A j \in 1..(i - 1) : a[j] = b[j]

\* y >= h / 2 for a double y with exponent below -1 and an integer h > 0
DoubleGeqHalf(y, h) ==
    BitsGeq(y.m, Normalize(BitsOf(h, 31)) \o Zeros(0 - (y.e + 1)))

\* Math.round((total / length) * 100) where 100 * total / length = h / 2, h odd
RoundTie(total, length) ==
    LET h == (200 * total) \div length
        y == MulDouble(DivDouble(total, length), 100)
    IN IF DoubleGeqHalf(y, h) THEN (h + 1) \div 2 ELSE (h - 1) \div 2

IsTie(total, length) ==
    (200 * total) % length = 0 /\ ((200 * total) \div length) % 2 = 1

\* Math.round((total / length) * 100), the average in hundredths.  When
\* 100 * total / length is not half an odd integer it is at least
\* 1 / (2 * length) away from one, far more than the two rounding errors of
\* the double division and multiplication, so Math.round gives the exact
\* nearest integer; at a half the doubles decide.
calculateAverage(matchHistory) ==
    IF Len(matchHistory) = 0 THEN 0
    ELSE LET total  == SumSeq(matchHistory)
             length == Len(matchHistory)
         IN IF IsTie(total, length)
                THEN RoundTie(total, length)
                ELSE (200 * total + length) \div (2 * length)

\* variant: best_leg is overwritten by the darts of the latest leg won
updateBestLeg_Latest(stats, dartsThrown) ==
    [ stats EXCEPT !.best_leg = Some(dartsThrown) ]

updateBestLeg(stats, dartsThrown) ==
    IF stats.best_leg = Absent \/ dartsThrown < stats.best_leg[1]
        THEN [ stats EXCEPT !.best_leg = Some(dartsThrown) ]
        ELSE stats

\* variant: the bust branch also rewrites stats.average and stats.visit_history
\* from matchHistory
applyBust_RefreshStats(p, scoreThrown) ==
    [ p EXCEPT !.dartsThrown = p.dartsThrown + 3,
               !.stats = [ p.stats EXCEPT
                             !.average = calculateAverage(p.matchHistory),
                             !.visit_history = Some(p.matchHistory) ] ]

\* variant: a busted visit is appended to the history of the leg
applyBust_RecordsVisit(p, scoreThrown) ==
    [ p EXCEPT !.dartsThrown = p.dartsThrown + 3,
               !.history = Append(p.history, scoreThrown) ]

\* variant: a busted visit is counted in the buckets
applyBust_CountsVisit(p, scoreThrown) ==
    [ p EXCEPT !.dartsThrown = p.dartsThrown + 3,
               !.stats = updateStats(p.stats, scoreThrown) ]

\* applyThrow, the bust branch: only dartsThrown changes
applyBust(p, scoreThrown) ==
    [ p EXCEPT !.dartsThrown = p.dartsThrown + 3 ]

\* variant: highest_checkout is overwritten by every checkout
applyLegWon_LatestCheckout(p, scoreThrown) ==
    LET finalDarts      == p.dartsThrown + 3
        newHistory      == Append(p.history, scoreThrown)
        newMatchHistory == Append(p.matchHistory, scoreThrown)
        stats1 == updateBestLeg(updateStats(p.stats, scoreThrown), finalDarts)
        stats2 == [ stats1 EXCEPT !.highest_checkout = Some(p.score) ]
        newStats == [ stats2 EXCEPT
                        !.average = calculateAverage(newMatchHistory),
                        !.visit_history = Some(newMatchHistory) ]
    IN [ p EXCEPT !.score = 0,
                  !.legs = p.legs + 1,
                  !.history = newHistory,
                  !.matchHistory = newMatchHistory,
                  !.stats = newStats,
                  !.dartsThrown = 0 ]

\* variant: the darts of the leg are counted from the recorded visits
applyLegWon_VisitsOnly(p, scoreThrown) ==
    LET finalDarts      == 3 * (Len(p.history) + 1)
        newHistory      == Append(p.history, scoreThrown)
        newMatchHistory == Append(p.matchHistory, scoreThrown)
        stats1 == updateBestLeg(updateStats(p.stats, scoreThrown), finalDarts)
        stats2 == IF stats1.highest_checkout = Absent
                     \/ stats1.highest_checkout[1] = 0
                     \/ p.score > stats1.highest_checkout[1]
                  THEN [ stats1 EXCEPT !.highest_checkout = Some(p.score) ]
                  ELSE stats1
        newStats == [ stats2 EXCEPT
                        !.average = calculateAverage(newMatchHistory),
                        !.visit_history = Some(newMatchHistory) ]
    IN [ p EXCEPT !.score = 0,
                  !.legs = p.legs + 1,
                  !.history = newHistory,
                  !.matchHistory = newMatchHistory,
                  !.stats = newStats,
                  !.dartsThrown = 0 ]

\* applyThrow, the leg-won branch
applyLegWon(p, scoreThrown) ==
    LET finalDarts      == p.dartsThrown + 3
        newHistory      == Append(p.history, scoreThrown)
        newMatchHistory == Append(p.matchHistory, scoreThrown)
        stats1 == updateBestLeg(updateStats(p.stats, scoreThrown), finalDarts)
        \* !highest_checkout is true when it is absent or 0
        stats2 == IF stats1.highest_checkout = Absent
                     \/ stats1.highest_checkout[1] = 0
                     \/ p.score > stats1.highest_checkout[1]
                  THEN [ stats1 EXCEPT !.highest_checkout = Some(p.score) ]
                  ELSE stats1
        newStats == [ stats2 EXCEPT
                        !.average = calculateAverage(newMatchHistory),
                        !.visit_history = Some(newMatchHistory) ]
    IN [ p EXCEPT !.score = 0,
                  !.legs = p.legs + 1,
                  !.history = newHistory,
                  !.matchHistory = newMatchHistory,
                  !.stats = newStats,
                  !.dartsThrown = 0 ]

\* variant: a normal throw is left out of matchHistory
applyNormal_NoMatchHistory(p, scoreThrown, newScore) ==
    LET newHistory      == Append(p.history, scoreThrown)
        newMatchHistory == p.matchHistory
        newStats == [ updateStats(p.stats, scoreThrown) EXCEPT
                        !.average = calculateAverage(newMatchHistory),
                        !.visit_history = Some(newMatchHistory) ]
    IN [ p EXCEPT !.score = newScore,
                  !.history = newHistory,
                  !.matchHistory = newMatchHistory,
                  !.stats = newStats,
                  !.dartsThrown = p.dartsThrown + 3 ]

\* variant: visit_history is given the history of the current leg
applyNormal_LegVisitHistory(p, scoreThrown, newScore) ==
    LET newHistory      == Append(p.history, scoreThrown)
        newMatchHistory == Append(p.matchHistory, scoreThrown)
        newStats == [ updateStats(p.stats, scoreThrown) EXCEPT
                        !.average = calculateAverage(newMatchHistory),
                        !.visit_history = Some(newHistory) ]
    IN [ p EXCEPT !.score = newScore,
                  !.history = newHistory,
                  !.matchHistory = newMatchHistory,
                  !.stats = newStats,
                  !.dartsThrown = p.dartsThrown + 3 ]

\* applyThrow, the normal-throw branch
applyNormal(p, scoreThrown, newScore) ==
    LET newHistory      == Append(p.history, scoreThrown)
        newMatchHistory == Append(p.matchHistory, scoreThrown)
        newStats == [ updateStats(p.stats, scoreThrown) EXCEPT
                        !.average = calculateAverage(newMatchHistory),
                        !.visit_history = Some(newMatchHistory) ]
    IN [ p EXCEPT !.score = newScore,
                  !.history = newHistory,
                  !.matchHistory = newMatchHistory,
                  !.stats = newStats,
                  !.dartsThrown = p.dartsThrown + 3 ]

applyThrow(p, scoreThrown) ==
    LET res == processThrow(p, scoreThrown) IN
    IF ~res.success
        THEN [ player |-> p, result |-> res ]
    ELSE IF res.isBust
        THEN [ player |-> applyBust(p, scoreThrown), result |-> res ]
    ELSE IF res.isLegWon
        THEN [ player |-> applyLegWon(p, scoreThrown), result |-> res ]
    ELSE [ player |-> applyNormal(p, scoreThrown, res.newScore), result |-> res ]

\* variant: the leg reset also clears matchHistory
resetForNewLeg_ClearsMatch(p) ==
    [ p EXCEPT !.score = config.startingScore,
               !.history = <<>>,
               !.matchHistory = <<>>,
               !.dartsThrown = 0 ]

\* variant: the leg reset keeps dartsThrown
resetForNewLeg_KeepDarts(p) ==
    [ p EXCEPT !.score = config.startingScore,
               !.history = <<>> ]

\* variant: the leg reset also restores the initial stats
resetForNewLeg_ResetStats(p) ==
    [ p EXCEPT !.score = config.startingScore,
               !.history = <<>>,
               !.stats = INITIAL_MATCH_STATS,
               !.dartsThrown = 0 ]

resetForNewLeg(p) ==
    [ p EXCEPT !.score = config.startingScore,
               !.history = <<>>,
               !.dartsThrown = 0 ]

\* variant: the match reset keeps the legs
resetForNewMatch_KeepLegs(p) ==
    [ p EXCEPT !.score = config.startingScore,
               !.sets = 0,
               !.history = <<>>,
               !.matchHistory = <<>>,
               !.stats = INITIAL_MATCH_STATS,
               !.dartsThrown = 0 ]

\* variant: the match reset keeps the stats
resetForNewMatch_KeepStats(p) ==
    [ p EXCEPT !.score = config.startingScore,
               !.legs = 0,
               !.sets = 0,
               !.history = <<>>,
               !.matchHistory = <<>>,
               !.dartsThrown = 0 ]

resetForNewMatch(p) ==
    [ p EXCEPT !.score = config.startingScore,
               !.legs = 0,
               !.sets = 0,
               !.history = <<>>,
               !.matchHistory = <<>>,
               !.stats = INITIAL_MATCH_STATS,
               !.dartsThrown = 0 ]

(* ------------------------------ the caller ----------------------------- *)

\* the object store outside SpecHeap
NoHeap == [ mem |-> <<>>, cur |-> 0, arg |-> 0, before |-> <<>>, ops |-> 0 ]

\* no bot outside SpecBot
NoBot == [ level |-> <<>>, currentScore |-> 0, score |-> <<>>, draws |-> <<>> ]

\* no App outside SpecApp
NoApp == <<>>

\* no online match outside SpecOnline
NoOnline == <<>>

NoResult ==
    [ success |-> TRUE, newScore |-> 0, isBust |-> FALSE,
      isLegWon |-> FALSE, isMatchWon |-> FALSE, message |-> "" ]

Configs ==
    [ startingScore : StartingScores,
      matchType     : MatchTypes,
      targetLegs    : 1..MaxTargetLegs ]

Init ==
    /\ config \in Configs
    /\ player = createPlayerState("Player 1", "uuid-1")
    /\ prev = player
    /\ op = "createPlayerState"
    /\ visit = 0
    /\ result = NoResult
    /\ legStart = 0
    /\ wonAt = 0 - 1
    /\ checkouts = {}
    /\ heap = NoHeap
    /\ bot = NoBot
    /\ busts = 0
    /\ app = NoApp
    /\ online = NoOnline

\* the caller passes scoreThrown to applyThrow and keeps the returned state
ApplyThrow ==
    \E scoreThrown \in Visits :
        LET r == applyThrow(player, scoreThrown) IN
        /\ Len(player.matchHistory) < MaxVisits
        /\ player.dartsThrown - 3 * Len(player.history) < 3 * MaxBusts
        /\ player' = r.player
        /\ result' = r.result
        /\ prev' = player
        /\ op' = "applyThrow"
        /\ visit' = scoreThrown
        /\ wonAt' = IF wonAt < 0 /\ r.result.isMatchWon THEN r.player.legs ELSE wonAt
        /\ checkouts' = IF r.result.isLegWon THEN checkouts \cup {player.score} ELSE checkouts
        /\ UNCHANGED <<app, busts, online, bot, config, legStart, heap>>

ResetForNewLeg ==
    /\ player' = resetForNewLeg(player)
    /\ prev' = player
    /\ op' = "resetForNewLeg"
    /\ legStart' = Len(player.matchHistory)
    /\ UNCHANGED <<app, busts, online, bot, config, visit, result, wonAt, checkouts, heap>>

ResetForNewMatch ==
    /\ player' = resetForNewMatch(player)
    /\ prev' = player
    /\ op' = "resetForNewMatch"
    /\ legStart' = 0
    /\ wonAt' = 0 - 1
    /\ checkouts' = {}
    /\ UNCHANGED <<app, busts, online, bot, config, visit, result, heap>>

Next ==
    \/ ApplyThrow
    \/ ResetForNewLeg
    \/ ResetForNewMatch

Spec == Init /\ [][Next]_vars

(* ---------------------- one long leg of low visits --------------------- *)
(* The same engine driven through a single 501 leg with visits of 0 and 23, *)
(* long enough for matchHistory to reach the lengths at which               *)
(* 100 * total / length is half an odd integer.                             *)

LongVisits == {0, 23}

InitLongLeg ==
    /\ config = [ startingScore |-> 501, matchType |-> "first_to", targetLegs |-> 3 ]
    /\ player = createPlayerState("Player 1", "uuid-1")
    /\ prev = player
    /\ op = "createPlayerState"
    /\ visit = 0
    /\ result = NoResult
    /\ legStart = 0
    /\ wonAt = 0 - 1
    /\ checkouts = {}
    /\ heap = NoHeap
    /\ bot = NoBot
    /\ busts = 0
    /\ app = NoApp
    /\ online = NoOnline

ApplyThrowLongLeg ==
    \E scoreThrown \in LongVisits :
        LET r == applyThrow(player, scoreThrown) IN
        /\ Len(player.matchHistory) < MaxLongVisits
        /\ SumSeq(player.matchHistory) + scoreThrown <= MaxLongTotal
        /\ player' = r.player
        /\ result' = r.result
        /\ prev' = player
        /\ op' = "applyThrow"
        /\ visit' = scoreThrown
        /\ wonAt' = IF wonAt < 0 /\ r.result.isMatchWon THEN r.player.legs ELSE wonAt
        /\ checkouts' = IF r.result.isLegWon THEN checkouts \cup {player.score} ELSE checkouts
        /\ UNCHANGED <<app, busts, online, bot, config, legStart, heap>>

NextLongLeg == ApplyThrowLongLeg

SpecLongLeg == InitLongLeg /\ [][NextLongLeg]_vars

(* ------------------- updateStats called on its own --------------------- *)
(* updateStats is a public method; here a caller applies it to the stats of *)
(* a fresh player with every visit score of 0..180.                         *)

BucketNames ==
    { "scores_65_plus", "scores_90_plus", "scores_100_plus",
      "scores_140_plus", "scores_170_plus", "scores_180" }

BucketTotal(stats) ==
    stats.scores_65_plus + stats.scores_90_plus + stats.scores_100_plus
        + stats.scores_140_plus + stats.scores_170_plus + stats.scores_180

UpdateStats ==
    \E scoreThrown \in 0..MAX_SCORE :
        /\ BucketTotal(player.stats) < MaxStatUpdates
        /\ player' = [ player EXCEPT !.stats = updateStats(player.stats, scoreThrown) ]
        /\ prev' = player
        /\ op' = "updateStats"
        /\ visit' = scoreThrown
        /\ UNCHANGED <<app, busts, online, bot, config, result, legStart, wonAt, checkouts, heap>>

NextStats == UpdateStats

SpecStats == InitLongLeg /\ [][NextStats]_vars

(* --------------------------- the object store -------------------------- *)
(* The engine's objects with their identities: mem is the sequence of the   *)
(* objects allocated so far and an address is an index into it.  A player   *)
(* object holds the addresses of its history and matchHistory arrays and of *)
(* its stats object; a stats object holds in visit_history the address of   *)
(* an array.  An object or array literal allocates, an assignment to a      *)
(* property writes in place.  Every operation yields [mem, ret].            *)

MaxHeapOps == 3

HeapVisits == {0 - 1, 0, 50, 70, 121, 170, 180}

\* { id, name, score, ..., history: [], matchHistory: [], stats: {...} }
heapCreatePlayerState(mem, name, id) ==
    LET m1 == Append(mem, <<>>)
        m2 == Append(m1, <<>>)
        m3 == Append(m2, INITIAL_MATCH_STATS)
    IN [ mem |-> Append(m3, [ id           |-> id,
                              name         |-> name,
                              score        |-> config.startingScore,
                              legs         |-> 0,
                              sets         |-> 0,
                              history      |-> Len(m1),
                              matchHistory |-> Len(m2),
                              stats        |-> Len(m3),
                              dartsThrown  |-> 0 ]),
         ret |-> Len(m3) + 1 ]

\* updateStats returns a new object
heapUpdateStats(mem, stats, scoreThrown) ==
    [ mem |-> Append(mem, updateStats(mem[stats], scoreThrown)),
      ret |-> Len(mem) + 1 ]

\* updateBestLeg returns a new object when the leg is better, else its argument
heapUpdateBestLeg(mem, stats, dartsThrown) ==
    IF mem[stats].best_leg = Absent \/ dartsThrown < mem[stats].best_leg[1]
        THEN [ mem |-> Append(mem, [ mem[stats] EXCEPT !.best_leg = Some(dartsThrown) ]),
               ret |-> Len(mem) + 1 ]
        ELSE [ mem |-> mem, ret |-> stats ]

\* the bust branch: { ...player, dartsThrown }
heapApplyBust(mem, player_, scoreThrown) ==
    [ mem |-> Append(mem, [ mem[player_] EXCEPT !.dartsThrown = @ + 3 ]),
      ret |-> Len(mem) + 1 ]

\* the leg-won branch
heapApplyLegWon(mem, player_, scoreThrown) ==
    LET p  == mem[player_]
        finalDarts == p.dartsThrown + 3
        m1 == Append(mem, Append(mem[p.history], scoreThrown))
        newHistory == Len(m1)
        m2 == Append(m1, Append(mem[p.matchHistory], scoreThrown))
        newMatchHistory == Len(m2)
        s1 == heapUpdateStats(m2, p.stats, scoreThrown)
        s2 == heapUpdateBestLeg(s1.mem, s1.ret, finalDarts)
        hc == s2.mem[s2.ret].highest_checkout
        s3 == IF hc = Absent \/ hc[1] = 0 \/ p.score > hc[1]
              THEN [ mem |-> Append(s2.mem, [ s2.mem[s2.ret] EXCEPT
                                                !.highest_checkout = Some(p.score) ]),
                     ret |-> Len(s2.mem) + 1 ]
              ELSE s2
        newStats == s3.ret
        \* newStats.average = ...; newStats.visit_history = newMatchHistory
        m4 == [ s3.mem EXCEPT
                  ![newStats].average = calculateAverage(s3.mem[newMatchHistory]),
                  ![newStats].visit_history = Some(newMatchHistory) ]
    IN [ mem |-> Append(m4, [ p EXCEPT !.score = 0,
                                       !.legs = p.legs + 1,
                                       !.history = newHistory,
                                       !.matchHistory = newMatchHistory,
                                       !.stats = newStats,
                                       !.dartsThrown = 0 ]),
         ret |-> Len(m4) + 1 ]

\* the normal branch
heapApplyNormal(mem, player_, scoreThrown, newScore) ==
    LET p  == mem[player_]
        m1 == Append(mem, Append(mem[p.history], scoreThrown))
        newHistory == Len(m1)
        m2 == Append(m1, Append(mem[p.matchHistory], scoreThrown))
        newMatchHistory == Len(m2)
        s1 == heapUpdateStats(m2, p.stats, scoreThrown)
        newStats == s1.ret
        m4 == [ s1.mem EXCEPT
                  ![newStats].average = calculateAverage(s1.mem[newMatchHistory]),
                  ![newStats].visit_history = Some(newMatchHistory) ]
    IN [ mem |-> Append(m4, [ p EXCEPT !.score = newScore,
                                       !.history = newHistory,
                                       !.matchHistory = newMatchHistory,
                                       !.stats = newStats,
                                       !.dartsThrown = p.dartsThrown + 3 ]),
         ret |-> Len(m4) + 1 ]

\* applyThrow of the packaged engine; a rejected throw returns its argument
heapApplyThrow(mem, player_, scoreThrown) ==
    LET r == processThrow(mem[player_], scoreThrown)
        h == IF ~r.success THEN [ mem |-> mem, ret |-> player_ ]
             ELSE IF r.isBust THEN heapApplyBust(mem, player_, scoreThrown)
             ELSE IF r.isLegWon THEN heapApplyLegWon(mem, player_, scoreThrown)
             ELSE heapApplyNormal(mem, player_, scoreThrown, r.newScore)
    IN [ mem |-> h.mem, ret |-> h.ret, result |-> r ]

\* { ...player, score, history: [], dartsThrown: 0 }
heapResetForNewLeg(mem, player_) ==
    LET m1 == Append(mem, <<>>)
    IN [ mem |-> Append(m1, [ mem[player_] EXCEPT
                                !.score = config.startingScore,
                                !.history = Len(m1),
                                !.dartsThrown = 0 ]),
         ret |-> Len(m1) + 1 ]

heapResetForNewMatch(mem, player_) ==
    LET m1 == Append(mem, <<>>)
        m2 == Append(m1, <<>>)
        m3 == Append(m2, INITIAL_MATCH_STATS)
    IN [ mem |-> Append(m3, [ mem[player_] EXCEPT
                                !.score = config.startingScore,
                                !.legs = 0,
                                !.sets = 0,
                                !.history = Len(m1),
                                !.matchHistory = Len(m2),
                                !.stats = Len(m3),
                                !.dartsThrown = 0 ]),
         ret |-> Len(m3) + 1 ]

(* The older copy of the engine, src/scoringEngine.ts. *)

legacyIsBust(newScore, currentScore, scoreThrown) ==
    newScore < 0 \/ newScore = 1

legacyCheckMatchWin(legs) ==
    IF config.matchType = "first_to"
        THEN legs >= config.targetLegs
        ELSE legs > FloorHalf(config.targetLegs)

legacyProcessThrow(p, scoreThrown) ==
    IF scoreThrown < 0 \/ scoreThrown > 180
    THEN [ success |-> FALSE, newScore |-> p.score, isBust |-> FALSE,
           isLegWon |-> FALSE, isMatchWon |-> FALSE,
           message |-> "Invalid score" ]
    ELSE LET newScore == p.score - scoreThrown IN
         IF legacyIsBust(newScore, p.score, scoreThrown)
         THEN [ success |-> TRUE, newScore |-> p.score, isBust |-> TRUE,
                isLegWon |-> FALSE, isMatchWon |-> FALSE,
                message |-> "Bust!" ]
         ELSE IF newScore = 0
         THEN LET isMatchWon == legacyCheckMatchWin(p.legs + 1) IN
              [ success |-> TRUE, newScore |-> 0, isBust |-> FALSE,
                isLegWon |-> TRUE, isMatchWon |-> isMatchWon,
                message |-> IF isMatchWon THEN "Match won!" ELSE "Leg won!" ]
         ELSE [ success |-> TRUE, newScore |-> newScore, isBust |-> FALSE,
                isLegWon |-> FALSE, isMatchWon |-> FALSE,
                message |-> "" ]

\* const newStats = { ...stats }; one bucket ++ by the if/else chain
legacyUpdateStats(mem, stats, scoreThrown) ==
    LET s == mem[stats]
        newStats ==
            IF scoreThrown = 180 THEN [ s EXCEPT !.scores_180 = @ + 1 ]
            ELSE IF scoreThrown >= 170 THEN [ s EXCEPT !.scores_170_plus = @ + 1 ]
            ELSE IF scoreThrown >= 140 THEN [ s EXCEPT !.scores_140_plus = @ + 1 ]
            ELSE IF scoreThrown >= 100 THEN [ s EXCEPT !.scores_100_plus = @ + 1 ]
            ELSE IF scoreThrown >= 90 THEN [ s EXCEPT !.scores_90_plus = @ + 1 ]
            ELSE IF scoreThrown >= 65 THEN [ s EXCEPT !.scores_65_plus = @ + 1 ]
            ELSE s
    IN [ mem |-> Append(mem, newStats), ret |-> Len(mem) + 1 ]

\* const newStats = { ...stats }; best_leg written when the leg is better
legacyUpdateBestLeg(mem, stats, dartsThrown) ==
    LET s == mem[stats]
    IN [ mem |-> Append(mem, IF s.best_leg = Absent \/ dartsThrown < s.best_leg[1]
                             THEN [ s EXCEPT !.best_leg = Some(dartsThrown) ]
                             ELSE s),
         ret |-> Len(mem) + 1 ]

\* applyThrow of the older copy: updatedPlayer = { ...player } shares the
\* stats object and the arrays of player; the branch either writes
\* dartsThrown of the copy (bust) or replaces the copy by a second literal;
\* the last two statements write through updatedPlayer.stats in every branch
legacyApplyThrow(mem, player_, scoreThrown) ==
    LET r == legacyProcessThrow(mem[player_], scoreThrown)
        p == mem[player_]
        m0 == Append(mem, p)
        copy == Len(m0)
        bust == [ mem |-> [ m0 EXCEPT ![copy].dartsThrown = @ + 3 ], ret |-> copy ]
        m1 == Append(m0, Append(mem[p.history], scoreThrown))
        m2 == Append(m1, Append(mem[p.matchHistory], scoreThrown))
        s1 == legacyUpdateStats(m2, p.stats, scoreThrown)
        s2 == legacyUpdateBestLeg(s1.mem, s1.ret, p.dartsThrown + 3)
        m3 == Append(s2.mem, [ p EXCEPT !.score = 0,
                                        !.legs = p.legs + 1,
                                        !.history = Len(m1),
                                        !.matchHistory = Len(m2),
                                        !.stats = s2.ret,
                                        !.dartsThrown = 0 ])
        hc == m3[s2.ret].highest_checkout
        won == [ mem |-> IF hc = Absent \/ hc[1] = 0 \/ p.score > hc[1]
                         THEN [ m3 EXCEPT ![s2.ret].highest_checkout = Some(p.score) ]
                         ELSE m3,
                 ret |-> Len(m3) ]
        normal == [ mem |-> Append(s1.mem, [ p EXCEPT
                                               !.score = r.newScore,
                                               !.history = Len(m1),
                                               !.matchHistory = Len(m2),
                                               !.stats = s1.ret,
                                               !.dartsThrown = p.dartsThrown + 3 ]),
                    ret |-> Len(s1.mem) + 1 ]
        h == IF r.isBust THEN bust ELSE IF r.isLegWon THEN won ELSE normal
        updatedPlayer == h.mem[h.ret]
    IN IF ~r.success
       THEN [ mem |-> mem, ret |-> player_, result |-> r ]
       ELSE [ mem |-> [ h.mem EXCEPT
                          ![updatedPlayer.stats].average =
                              calculateAverage(h.mem[updatedPlayer.matchHistory]),
                          ![updatedPlayer.stats].visit_history =
                              Some(updatedPlayer.matchHistory) ],
              ret |-> h.ret,
              result |-> r ]

\* the caller holds one player object and replaces it by what a call returns
InitHeap ==
    /\ config \in Configs
    /\ player = createPlayerState("Player 1", "uuid-1")
    /\ prev = player
    /\ op = "createPlayerState"
    /\ visit = 0
    /\ result = NoResult
    /\ legStart = 0
    /\ wonAt = 0 - 1
    /\ checkouts = {}
    /\ LET h == heapCreatePlayerState(<<>>, "Player 1", "uuid-1")
       IN heap = [ mem |-> h.mem, cur |-> h.ret, arg |-> 0,
                   before |-> h.mem, ops |-> 0 ]
    /\ bot = NoBot
    /\ busts = 0
    /\ app = NoApp
    /\ online = NoOnline

\* heap after a call on heap.cur that gave h
Called(h) ==
    [ mem |-> h.mem, cur |-> h.ret, arg |-> heap.cur,
      before |-> heap.mem, ops |-> heap.ops + 1 ]

HeapApplyThrow ==
    \E scoreThrown \in HeapVisits :
        LET h == heapApplyThrow(heap.mem, heap.cur, scoreThrown) IN
        /\ heap.ops < MaxHeapOps
        /\ heap' = Called(h)
        /\ op' = "applyThrow"
        /\ visit' = scoreThrown
        /\ result' = h.result
        /\ UNCHANGED <<app, busts, online, bot, config, player, prev, legStart, wonAt, checkouts>>

LegacyApplyThrow ==
    \E scoreThrown \in HeapVisits :
        LET h == legacyApplyThrow(heap.mem, heap.cur, scoreThrown) IN
        /\ heap.ops < MaxHeapOps
        /\ heap' = Called(h)
        /\ op' = "applyThrow"
        /\ visit' = scoreThrown
        /\ result' = h.result
        /\ UNCHANGED <<app, busts, online, bot, config, player, prev, legStart, wonAt, checkouts>>

HeapResetForNewLeg ==
    /\ heap.ops < MaxHeapOps
    /\ heap' = Called(heapResetForNewLeg(heap.mem, heap.cur))
    /\ op' = "resetForNewLeg"
    /\ UNCHANGED <<app, busts, online, bot, config, player, prev, visit, result, legStart, wonAt, checkouts>>

HeapResetForNewMatch ==
    /\ heap.ops < MaxHeapOps
    /\ heap' = Called(heapResetForNewMatch(heap.mem, heap.cur))
    /\ op' = "resetForNewMatch"
    /\ UNCHANGED <<app, busts, online, bot, config, player, prev, visit, result, legStart, wonAt, checkouts>>

NextHeap == HeapApplyThrow \/ HeapResetForNewLeg \/ HeapResetForNewMatch

SpecHeap == InitHeap /\ [][NextHeap]_vars

NextHeapLegacy == LegacyApplyThrow \/ HeapResetForNewLeg \/ HeapResetForNewMatch

SpecHeapLegacy == InitHeap /\ [][NextHeapLegacy]_vars

(* ----------------------------- the bot engine -------------------------- *)
(* src/src/scoring/botEngine.ts.  checkoutRate is in hundredths.  The draws *)
(* of a call are given by their outcomes: roll is Math.random() in          *)
(* hundredths, index is Math.floor(Math.random() * GOOD_LEAVES.length),     *)
(* variance is Math.floor(Math.random() * 10) or Math.floor(Math.random()   *)
(* * 20), sample is Math.round(avg + z * consistency); a draw the call does *)
(* not make is 0.                                                           *)

\* Math.random() in hundredths: a value below every checkoutRate of the
\* catalogue, one at the rate of the fourth level and one above every rate
Rolls == {0, 50, 95}

\* how far the Box-Muller sample goes beyond the range 0..180
MaxSample == 5

\* Math.round(avg + z * consistency): z is any real or, for u1 = 0, an
\* infinity, which Math.max and Math.min treat as any value out of range
Samples == (0 - MaxSample) .. (180 + MaxSample)

BOT_LEVELS ==
    << [ id |-> 1, name |-> "beginner",     avg |-> 30,  checkoutRate |-> 5,  consistency |-> 30 ],
       [ id |-> 2, name |-> "pub_player",   avg |-> 45,  checkoutRate |-> 15, consistency |-> 28 ],
       [ id |-> 3, name |-> "super_league", avg |-> 60,  checkoutRate |-> 30, consistency |-> 25 ],
       [ id |-> 4, name |-> "county",       avg |-> 75,  checkoutRate |-> 50, consistency |-> 22 ],
       [ id |-> 5, name |-> "pro",          avg |-> 95,  checkoutRate |-> 75, consistency |-> 18 ],
       [ id |-> 6, name |-> "dartbot_3000", avg |-> 110, checkoutRate |-> 90, consistency |-> 12 ] >>

GOOD_LEAVES == <<32, 40, 36, 24, 16, 20, 8>>

INVALID_CHECKOUTS == {159, 162, 163, 165, 166, 168, 169}

getIdealLeave(level, index) ==
    IF level.avg >= 80 THEN 32
    ELSE GOOD_LEAVES[index + 1]

\* variant: the setup shot of a missed checkout aims at the whole score
attemptCheckout_AimsAtFinish(level, currentScore, rnd) ==
    IF rnd.roll < level.checkoutRate THEN currentScore
    ELSE IF currentScore <= 40
    THEN LET missedScore == currentScore \div 2
             variance    == rnd.variance - 5
         IN Max(0, missedScore + variance)
    ELSE LET targetLeave == 0
             p0 == currentScore - targetLeave
             p1 == IF p0 > 180 THEN 100 ELSE p0
             potentialScore == IF p1 <= 0 THEN 0 ELSE p1
             variance == rnd.variance - 10
         IN Max(0, Min(180, potentialScore + variance))

\* variant: no roll is a hit
attemptCheckout_NeverHits(level, currentScore, rnd) ==
    IF currentScore <= 40
    THEN LET missedScore == currentScore \div 2
             variance    == rnd.variance - 5
         IN Max(0, missedScore + variance)
    ELSE LET targetLeave == getIdealLeave(level, rnd.index)
             p0 == currentScore - targetLeave
             p1 == IF p0 > 180 THEN 100 ELSE p0
             potentialScore == IF p1 <= 0 THEN 0 ELSE p1
             variance == rnd.variance - 10
         IN Max(0, Min(180, potentialScore + variance))

attemptCheckout(level, currentScore, rnd) ==
    IF rnd.roll < level.checkoutRate THEN currentScore
    ELSE IF currentScore <= 40
    THEN LET missedScore == currentScore \div 2
             variance    == rnd.variance - 5
         IN Max(0, missedScore + variance)
    ELSE LET targetLeave == getIdealLeave(level, rnd.index)
             p0 == currentScore - targetLeave
             p1 == IF p0 > 180 THEN 100 ELSE p0
             potentialScore == IF p1 <= 0 THEN 0 ELSE p1
             variance == rnd.variance - 10
         IN Max(0, Min(180, potentialScore + variance))

\* variant: the sampled score is not clamped to 0..180
generateScoringVisit_Unclamped(level, currentScore, rnd) ==
    LET score == rnd.sample
    IN IF currentScore - score <= 1 /\ currentScore > 40
       THEN LET idealLeave == getIdealLeave(level, rnd.index)
            IN IF currentScore > idealLeave
               THEN currentScore - idealLeave
               ELSE Max(0, currentScore - 40)
       ELSE score

\* variant: a sample that leaves exactly 0 is kept
generateScoringVisit_KeepsZero(level, currentScore, rnd) ==
    LET score == Max(0, Min(180, rnd.sample))
    IN IF (currentScore - score = 1 \/ currentScore - score < 0) /\ currentScore > 40
       THEN LET idealLeave == getIdealLeave(level, rnd.index)
            IN IF currentScore > idealLeave
               THEN currentScore - idealLeave
               ELSE Max(0, currentScore - 40)
       ELSE score

\* variant: only a sample that leaves less than 0 is overridden
generateScoringVisit_NegativeOnly(level, currentScore, rnd) ==
    LET score == Max(0, Min(180, rnd.sample))
    IN IF currentScore - score < 0 /\ currentScore > 40
       THEN LET idealLeave == getIdealLeave(level, rnd.index)
            IN IF currentScore > idealLeave
               THEN currentScore - idealLeave
               ELSE Max(0, currentScore - 40)
       ELSE score

generateScoringVisit(level, currentScore, rnd) ==
    LET score == Max(0, Min(180, rnd.sample))
    IN IF currentScore - score <= 1 /\ currentScore > 40
       THEN LET idealLeave == getIdealLeave(level, rnd.index)
            IN IF currentScore > idealLeave
               THEN currentScore - idealLeave
               ELSE Max(0, currentScore - 40)
       ELSE score

\* variant: every score of at most 170 is taken for a checkout
canCheckout_IgnoreInvalid(currentScore) ==
    currentScore <= 170

canCheckout(currentScore) ==
    currentScore <= 170 /\ currentScore \notin INVALID_CHECKOUTS

generateScore(level, currentScore, rnd) ==
    IF canCheckout(currentScore)
        THEN attemptCheckout(level, currentScore, rnd)
        ELSE generateScoringVisit(level, currentScore, rnd)

\* the outcomes of Math.floor(Math.random() * GOOD_LEAVES.length), drawn by
\* getIdealLeave for a level below 80 only
Indexes(level) ==
    IF level.avg >= 80 THEN {0} ELSE 0 .. (Len(GOOD_LEAVES) - 1)

\* the random draws a call of generateScore(currentScore) can make: the
\* checkout attempt draws roll and, when it misses, the variance of the low
\* checkout or the leave and the variance of the setup shot; the scoring
\* visit draws the sample and, when the sample leaves 1 or less, the leave
Draws(level, currentScore) ==
    IF canCheckout(currentScore)
    THEN [ roll : { r \in Rolls : r < level.checkoutRate },
           index : {0}, variance : {0}, sample : {0} ]
         \cup
         [ roll : { r \in Rolls : ~(r < level.checkoutRate) },
           index : IF currentScore <= 40 THEN {0} ELSE Indexes(level),
           variance : IF currentScore <= 40 THEN 0..9 ELSE 0..19,
           sample : {0} ]
    ELSE [ roll : {0},
           index : IF currentScore - 180 <= 1 THEN Indexes(level) ELSE {0},
           variance : {0},
           sample : Samples ]

\* a bot of any level of the catalogue facing any remaining score
InitBot ==
    /\ config = [ startingScore |-> 501, matchType |-> "first_to", targetLegs |-> 3 ]
    /\ player = createPlayerState("Player 1", "uuid-1")
    /\ prev = player
    /\ op = "createPlayerState"
    /\ visit = 0
    /\ result = NoResult
    /\ legStart = 0
    /\ wonAt = 0 - 1
    /\ checkouts = {}
    /\ heap = NoHeap
    /\ busts = 0
    /\ app = NoApp
    /\ online = NoOnline
    /\ \E i \in 1..Len(BOT_LEVELS), currentScore \in 2..501 :
          bot = [ level |-> BOT_LEVELS[i], currentScore |-> currentScore,
                  score |-> Absent, draws |-> Absent ]

\* what the state keeps of the draws rnd of a call: whether the checkout was
\* attempted, whether its roll was below checkoutRate, and the other draws
Drawn(level, currentScore, rnd) ==
    [ attempt  |-> canCheckout(currentScore),
      hit      |-> canCheckout(currentScore) /\ rnd.roll < level.checkoutRate,
      index    |-> rnd.index,
      variance |-> rnd.variance,
      sample   |-> rnd.sample ]

\* generateScore is called and the visit is given to applyThrow on a state
\* holding currentScore
GenerateScore ==
    \E rnd \in Draws(bot.level, bot.currentScore) :
        LET score == generateScore(bot.level, bot.currentScore, rnd)
            held  == [ player EXCEPT !.score = bot.currentScore ]
            r     == applyThrow(held, score)
        IN
        /\ bot.score = Absent
        /\ bot' = [ bot EXCEPT !.score = Some(score),
                               !.draws = Some(Drawn(bot.level, bot.currentScore, rnd)) ]
        /\ op' = "generateScore"
        /\ visit' = score
        /\ prev' = held
        /\ player' = r.player
        /\ result' = r.result
        /\ UNCHANGED <<app, busts, online, config, legStart, wonAt, checkouts, heap>>

NextBot == GenerateScore

SpecBot == InitBot /\ [][NextBot]_vars

(* --------------------------- checkout lookups -------------------------- *)
(* getSuggestedCheckout and isValidCheckout are pure lookups; in            *)
(* SpecCheckout visit is the remaining score they are asked about and      *)
(* result what they returned (a missing suggestion, null, is <<>>).         *)

\* largest remaining score looked up
MaxRemaining == 200

CHECKOUT_TABLE ==
    170 :> "T20 T20 Bull" @@
    167 :> "T20 T19 Bull" @@
    164 :> "T20 T18 Bull" @@
    161 :> "T20 T17 Bull" @@
    160 :> "T20 T20 D20" @@
    158 :> "T20 T20 D19" @@
    157 :> "T20 T19 D20" @@
    156 :> "T20 T20 D18" @@
    155 :> "T20 T19 D19" @@
    154 :> "T20 T18 D20" @@
    153 :> "T20 T19 D18" @@
    152 :> "T20 T20 D16" @@
    151 :> "T20 T17 D20" @@
    150 :> "T20 T18 D18" @@
    148 :> "T20 T20 D14" @@
    147 :> "T20 T17 D18" @@
    146 :> "T20 T18 D16" @@
    145 :> "T20 T15 D20" @@
    144 :> "T20 T20 D12" @@
    143 :> "T20 T17 D16" @@
    142 :> "T20 T14 D20" @@
    141 :> "T20 T19 D12" @@
    140 :> "T20 T20 D10" @@
    139 :> "T19 T14 D20" @@
    138 :> "T20 T18 D12" @@
    137 :> "T20 T19 D10" @@
    136 :> "T20 T20 D8" @@
    135 :> "T20 T17 D12" @@
    134 :> "T20 T14 D16" @@
    133 :> "T20 T19 D8" @@
    132 :> "T20 T16 D12" @@
    131 :> "T20 T13 D16" @@
    130 :> "T20 T18 D8" @@
    129 :> "T19 T16 D12" @@
    128 :> "T18 T14 D16" @@
    127 :> "T20 T17 D8" @@
    126 :> "T19 T19 D6" @@
    125 :> "T18 T19 D7" @@
    124 :> "T20 T14 D11" @@
    123 :> "T19 T16 D9" @@
    122 :> "T18 T18 D7" @@
    121 :> "T17 T10 D20" @@
    120 :> "T20 S20 D20" @@
    119 :> "T19 T12 D13" @@
    118 :> "T20 S18 D20" @@
    117 :> "T20 S17 D20" @@
    116 :> "T20 S16 D20" @@
    115 :> "T19 S18 D20" @@
    114 :> "T20 S14 D20" @@
    113 :> "T19 S16 D20" @@
    112 :> "T20 S12 D20" @@
    111 :> "T19 S14 D20" @@
    110 :> "T20 S10 D20" @@
    109 :> "T19 S12 D20" @@
    108 :> "T20 S8 D20" @@
    107 :> "T19 S10 D20" @@
    106 :> "T20 S6 D20" @@
    105 :> "T19 S8 D20" @@
    104 :> "T18 S10 D20" @@
    103 :> "T19 S6 D20" @@
    102 :> "T20 S10 D16" @@
    101 :> "T17 S10 D20" @@
    100 :> "T20 D20" @@
    99 :> "T19 S10 D16" @@
    98 :> "T20 D19" @@
    97 :> "T19 D20" @@
    96 :> "T20 D18" @@
    95 :> "T19 D19" @@
    94 :> "T18 D20" @@
    93 :> "T19 D18" @@
    92 :> "T20 D16" @@
    91 :> "T17 D20" @@
    90 :> "T18 D18" @@
    89 :> "T19 D16" @@
    88 :> "T20 D14" @@
    87 :> "T17 D18" @@
    86 :> "T18 D16" @@
    85 :> "T15 D20" @@
    84 :> "T20 D12" @@
    83 :> "T17 D16" @@
    82 :> "T14 D20" @@
    81 :> "T19 D12" @@
    80 :> "T20 D10" @@
    79 :> "T19 D11" @@
    78 :> "T18 D12" @@
    77 :> "T19 D10" @@
    76 :> "T20 D8" @@
    75 :> "T17 D12" @@
    74 :> "T14 D16" @@
    73 :> "T19 D8" @@
    72 :> "T16 D12" @@
    71 :> "T13 D16" @@
    70 :> "T18 D8" @@
    69 :> "T19 D6" @@
    68 :> "T20 D4" @@
    67 :> "T17 D8" @@
    66 :> "T10 D18" @@
    65 :> "T19 D4" @@
    64 :> "T16 D8" @@
    63 :> "T13 D12" @@
    62 :> "T10 D16" @@
    61 :> "T15 D8" @@
    60 :> "S20 D20" @@
    59 :> "S19 D20" @@
    58 :> "S18 D20" @@
    57 :> "S17 D20" @@
    56 :> "T16 D4" @@
    55 :> "S15 D20" @@
    54 :> "S14 D20" @@
    53 :> "S13 D20" @@
    52 :> "S12 D20" @@
    51 :> "S11 D20" @@
    50 :> "S10 D20" @@
    49 :> "S9 D20" @@
    48 :> "S8 D20" @@
    47 :> "S7 D20" @@
    46 :> "S6 D20" @@
    45 :> "S13 D16" @@
    44 :> "S4 D20" @@
    43 :> "S3 D20" @@
    42 :> "S10 D16" @@
    41 :> "S9 D16" @@
    40 :> "D20" @@
    38 :> "D19" @@
    36 :> "D18" @@
    34 :> "D17" @@
    32 :> "D16" @@
    30 :> "D15" @@
    28 :> "D14" @@
    26 :> "D13" @@
    24 :> "D12" @@
    22 :> "D11" @@
    20 :> "D10" @@
    18 :> "D9" @@
    16 :> "D8" @@
    14 :> "D7" @@
    12 :> "D6" @@
    10 :> "D5" @@
    8 :> "D4" @@
    6 :> "D3" @@
    4 :> "D2" @@
    2 :> "D1"

getCheckoutSuggestion(score) ==
    IF score \in DOMAIN CHECKOUT_TABLE THEN Some(CHECKOUT_TABLE[score]) ELSE Absent

getSuggestedCheckout(remaining) == getCheckoutSuggestion(remaining)

isValidCheckout(score) == score \in VALID_CHECKOUTS

InitCheckout ==
    /\ config = [ startingScore |-> 501, matchType |-> "first_to", targetLegs |-> 3 ]
    /\ player = createPlayerState("Player 1", "uuid-1")
    /\ prev = player
    /\ op = "createPlayerState"
    /\ visit \in (0 - 1) .. MaxRemaining
    /\ result = NoResult
    /\ legStart = 0
    /\ wonAt = 0 - 1
    /\ checkouts = {}
    /\ heap = NoHeap
    /\ bot = NoBot
    /\ busts = 0
    /\ app = NoApp
    /\ online = NoOnline

GetSuggestedCheckout ==
    /\ op' = "getSuggestedCheckout"
    /\ result' = getSuggestedCheckout(visit)
    /\ UNCHANGED <<app, busts, online, bot, config, player, prev, visit, legStart, wonAt, checkouts, heap>>

IsValidCheckout ==
    /\ op' = "isValidCheckout"
    /\ result' = isValidCheckout(visit)
    /\ UNCHANGED <<app, busts, online, bot, config, player, prev, visit, legStart, wonAt, checkouts, heap>>

NextCheckout == GetSuggestedCheckout \/ IsValidCheckout

SpecCheckout == InitCheckout /\ [][NextCheckout]_vars

(* ------------------------- legs with busted visits --------------------- *)
(* SpecBusts plays legs begun by createPlayerState, resetForNewLeg or       *)
(* resetForNewMatch, in which throws follow busts; busts counts the busted  *)
(* visits since the leg began.                                              *)

\* most busted visits in one leg of SpecBusts
MaxLegBusts == 2

\* most visits recorded in matchHistory in SpecBusts
MaxBustVisits == 2

BustVisits == {0, 50, 120, 121, 170, 180, 181}

ThrowInLeg ==
    \E scoreThrown \in BustVisits :
        LET r == applyThrow(player, scoreThrown) IN
        /\ player.score # 0
        /\ Len(player.matchHistory) < MaxBustVisits
        /\ r.result.isBust => busts < MaxLegBusts
        /\ player' = r.player
        /\ result' = r.result
        /\ prev' = player
        /\ op' = "applyThrow"
        /\ visit' = scoreThrown
        /\ busts' = IF r.result.isBust THEN busts + 1 ELSE busts
        /\ UNCHANGED <<app, online, bot, config, legStart, wonAt, checkouts, heap>>

NewLegAfterBusts ==
    /\ player' = resetForNewLeg(player)
    /\ prev' = player
    /\ op' = "resetForNewLeg"
    /\ busts' = 0
    /\ UNCHANGED <<app, online, bot, config, visit, result, legStart, wonAt,
                   checkouts, heap>>

NewMatchAfterBusts ==
    /\ player' = resetForNewMatch(player)
    /\ prev' = player
    /\ op' = "resetForNewMatch"
    /\ busts' = 0
    /\ UNCHANGED <<app, online, bot, config, visit, result, legStart, wonAt,
                   checkouts, heap>>

NextBusts == ThrowInLeg \/ NewLegAfterBusts \/ NewMatchAfterBusts

SpecBusts == Init /\ [][NextBusts]_vars

(* --------------------------- a leg played by a bot --------------------- *)
(* Every visit of the leg is generateScore(score) applied with applyThrow.  *)
(* generateScore reads the score only and the score applyThrow returns      *)
(* depends on the score and the visit only, so SpecBotLeg keeps of the      *)
(* player the remaining score, in bot.currentScore, and the last result.    *)

STARTING_SCORES == {501, 301, 170, 121}

InitBotLeg ==
    /\ config \in [ startingScore : STARTING_SCORES,
                    matchType : {"first_to"}, targetLegs : {3} ]
    /\ player = createPlayerState("Bot", "uuid-2")
    /\ prev = player
    /\ op = "createPlayerState"
    /\ visit = 0
    /\ result = NoResult
    /\ legStart = 0
    /\ wonAt = 0 - 1
    /\ checkouts = {}
    /\ heap = NoHeap
    /\ busts = 0
    /\ app = NoApp
    /\ online = NoOnline
    /\ \E i \in 1..Len(BOT_LEVELS) :
          bot = [ level |-> BOT_LEVELS[i], currentScore |-> config.startingScore,
                  score |-> Absent, draws |-> Absent ]

\* one visit of the leg: applyThrow of a score generateScore returned
BotThrow(score) ==
    \E r \in { applyThrow([ player EXCEPT !.score = bot.currentScore ], score) } :
    /\ bot.currentScore # 0
    /\ bot' = [ bot EXCEPT !.currentScore = r.player.score ]
    /\ op' = "generateScore"
    /\ result' = r.result
    /\ UNCHANGED <<app, busts, online, config, player, prev, visit, legStart,
                   wonAt, checkouts, heap>>

\* one visit of the leg with the draws rnd
BotPlay(rnd) == BotThrow(generateScore(bot.level, bot.currentScore, rnd))

\* the draws of Draws whose checkout roll is a hit
HitDraws(level, currentScore) ==
    IF canCheckout(currentScore)
    THEN [ roll : { r \in Rolls : r < level.checkoutRate },
           index : {0}, variance : {0}, sample : {0} ]
    ELSE {}

\* the draws of Draws whose scoring sample is the level's average
MeanDraws(level, currentScore) ==
    IF canCheckout(currentScore)
    THEN {}
    ELSE [ roll : {0},
           index : IF currentScore - 180 <= 1 THEN Indexes(level) ELSE {0},
           variance : {0},
           sample : {level.avg} ]

\* the checkout roll is below checkoutRate
BotHit ==
    /\ canCheckout(bot.currentScore)
    /\ \E rnd \in HitDraws(bot.level, bot.currentScore) : BotPlay(rnd)

\* a scoring visit whose sample is the level's average
BotMean ==
    /\ ~canCheckout(bot.currentScore)
    /\ \E rnd \in MeanDraws(bot.level, bot.currentScore) : BotPlay(rnd)

\* every other draw: a missed checkout, a sample off the average
BotOther ==
    \E score \in { generateScore(bot.level, bot.currentScore, rnd) :
                      rnd \in Draws(bot.level, bot.currentScore)
                               \ (HitDraws(bot.level, bot.currentScore)
                                    \cup MeanDraws(bot.level, bot.currentScore)) } :
        BotThrow(score)

NextBotLeg == BotHit \/ BotMean \/ BotOther

SpecBotLeg == InitBotLeg /\ [][NextBotLeg]_vars

\* fair draws: an outcome that stays possible is eventually drawn
FairBotLeg == SpecBotLeg /\ WF_vars(BotHit) /\ WF_vars(BotMean)

(* -------------------------------- the App ------------------------------ *)
(* The React component of src/src/App.tsx.  app holds its state: screen,    *)
(* setup, engine (whether an engine exists; its configuration is config),   *)
(* player1, player2, currentPlayer and winner, and entered, the number of   *)
(* visits entered in the match.  inputValue is empty between handlers: the  *)
(* digits typed and Enter are one step, handleEnter with the number typed.  *)
(* player, prev, visit and result keep the last applyThrow of handleEnter;  *)
(* a handler that does not call applyThrow clears them.                     *)

MaxEntries == 4

STARTING_SCORE_OPTIONS == {501, 301, 170, 121}

LEGS_OPTIONS == {1, 3, 5, 7, 9, 11}

\* numbers typed on the keypad before Enter (up to three digits)
Entries == {0, 121, 170, 180, 181}

Setups ==
    [ startingScore : STARTING_SCORE_OPTIONS,
      matchType     : MatchTypes,
      targetLegs    : LEGS_OPTIONS ]

InitApp ==
    /\ config = [ startingScore |-> 501, matchType |-> "first_to", targetLegs |-> 3 ]
    /\ player = createPlayerState("Player 1", "uuid-1")
    /\ prev = player
    /\ op = "App"
    /\ visit = 0
    /\ result = NoResult
    /\ legStart = 0
    /\ wonAt = 0 - 1
    /\ checkouts = {}
    /\ heap = NoHeap
    /\ bot = NoBot
    /\ busts = 0
    /\ online = NoOnline
    /\ app = [ screen        |-> "setup",
               setup         |-> config,
               engine        |-> FALSE,
               player1       |-> Absent,
               player2       |-> Absent,
               currentPlayer |-> 1,
               winner        |-> Absent,
               entered       |-> 0 ]

\* no applyThrow in the handler
NoThrow ==
    /\ player' = createPlayerState("Player 1", "uuid-1")'
    /\ prev' = player'
    /\ visit' = 0
    /\ result' = NoResult

\* the setup screen's buttons
SetSetup ==
    \E s \in Setups :
        /\ app.screen = "setup"
        /\ app' = [ app EXCEPT !.setup = s ]
        /\ op' = "setSetup"
        /\ UNCHANGED config
        /\ NoThrow
        /\ UNCHANGED <<busts, online, bot, legStart, wonAt, checkouts, heap>>

HandleStartGame ==
    /\ app.screen = "setup"
    /\ config' = app.setup
    /\ app' = [ app EXCEPT
                  !.engine        = TRUE,
                  !.player1       = Some(createPlayerState("Player 1", "uuid-1")'),
                  !.player2       = Some(createPlayerState("Player 2", "uuid-2")'),
                  !.currentPlayer = 1,
                  !.winner        = Absent,
                  !.screen        = "game",
                  !.entered       = 0 ]
    /\ op' = "handleStartGame"
    /\ NoThrow
    /\ UNCHANGED <<busts, online, bot, legStart, wonAt, checkouts, heap>>

\* variant: after a leg win the winner of the leg keeps the throw
afterThrow_WinnerStarts(a, updatedPlayer, otherPlayerState, res) ==
    LET other == IF a.currentPlayer = 1 THEN 2 ELSE 1
        set(b, n, p) == IF n = 1 THEN [ b EXCEPT !.player1 = Some(p) ]
                                 ELSE [ b EXCEPT !.player2 = Some(p) ]
        a1 == set(a, a.currentPlayer, updatedPlayer)
    IN
    IF res.isMatchWon
    THEN [ a1 EXCEPT !.winner = Some(updatedPlayer.name), !.screen = "result" ]
    ELSE IF res.isLegWon
    THEN set(set(a1, a.currentPlayer, resetForNewLeg(updatedPlayer)),
             other, resetForNewLeg(otherPlayerState))
    ELSE IF ~res.isBust
    THEN [ a1 EXCEPT !.currentPlayer = other ]
    ELSE a1

\* handleEnter after engine.applyThrow: the state setters it calls
afterThrow(a, updatedPlayer, otherPlayerState, res) ==
    LET other == IF a.currentPlayer = 1 THEN 2 ELSE 1
        set(b, n, p) == IF n = 1 THEN [ b EXCEPT !.player1 = Some(p) ]
                                 ELSE [ b EXCEPT !.player2 = Some(p) ]
        a1 == set(a, a.currentPlayer, updatedPlayer)
    IN
    IF res.isMatchWon
    THEN [ a1 EXCEPT !.winner = Some(updatedPlayer.name), !.screen = "result" ]
    ELSE IF res.isLegWon
    THEN [ set(set(a1, a.currentPlayer, resetForNewLeg(updatedPlayer)),
               other, resetForNewLeg(otherPlayerState))
             EXCEPT !.currentPlayer = other ]
    ELSE IF ~res.isBust
    THEN [ a1 EXCEPT !.currentPlayer = other ]
    ELSE a1

\* Enter on the game screen's keypad with the number typed
HandleEnter ==
    \E score \in Entries :
        LET currentPlayerState == IF app.currentPlayer = 1 THEN app.player1[1]
                                                          ELSE app.player2[1]
            otherPlayerState   == IF app.currentPlayer = 1 THEN app.player2[1]
                                                          ELSE app.player1[1]
            r == applyThrow(currentPlayerState, score)
        IN
        /\ app.screen = "game"
        /\ app.engine /\ app.player1 # Absent /\ app.player2 # Absent
        /\ app.entered < MaxEntries
        /\ app' = [ afterThrow(app, r.player, otherPlayerState, r.result)
                      EXCEPT !.entered = app.entered + 1 ]
        /\ op' = "handleEnter"
        /\ visit' = score
        /\ prev' = currentPlayerState
        /\ player' = r.player
        /\ result' = r.result
        /\ UNCHANGED <<busts, online, bot, config, legStart, wonAt, checkouts, heap>>

\* the New Game button of the game and result screens
HandleNewGame ==
    /\ app.screen \in {"game", "result"}
    /\ app' = [ app EXCEPT !.screen = "setup", !.engine = FALSE,
                           !.player1 = Absent, !.player2 = Absent,
                           !.winner = Absent ]
    /\ op' = "handleNewGame"
    /\ UNCHANGED config
    /\ NoThrow
    /\ UNCHANGED <<busts, online, bot, legStart, wonAt, checkouts, heap>>

\* the Rematch button of the result screen
HandleRematch ==
    /\ app.screen = "result"
    /\ app.engine /\ app.player1 # Absent /\ app.player2 # Absent
    /\ app' = [ app EXCEPT
                  !.player1       = Some(resetForNewMatch(app.player1[1])),
                  !.player2       = Some(resetForNewMatch(app.player2[1])),
                  !.currentPlayer = 1,
                  !.winner        = Absent,
                  !.screen        = "game",
                  !.entered       = 0 ]
    /\ op' = "handleRematch"
    /\ UNCHANGED config
    /\ NoThrow
    /\ UNCHANGED <<busts, online, bot, legStart, wonAt, checkouts, heap>>

NextApp ==
    \/ SetSetup
    \/ HandleStartGame
    \/ HandleEnter
    \/ HandleNewGame
    \/ HandleRematch

SpecApp == InitApp /\ [][NextApp]_vars

(* --------------------------- the online match -------------------------- *)
(* OnlineMatchService.recordThrow of src/unnamed/part_003: a select of the  *)
(* match row, then an update of some of its columns, with an await between  *)
(* them.  online.row is the stored row, online.calls the two recordThrow    *)
(* calls of a round (pc: "idle" before the select, "read" between the       *)
(* select and the update, "done" after the update), online.start the row    *)
(* when the round began and online.rounds the number of rounds begun.       *)

MaxRounds == 2

OnlinePlayers == {"host", "guest"}

\* visit totals passed to recordThrow
OnlineScores == {0, 60, 61, 121}

\* createMatch, then joinMatch
createMatch(starting_score, legs_to_win) ==
    [ status         |-> "ready",
      starting_score |-> starting_score,
      legs_to_win    |-> legs_to_win,
      current_player |-> "host",
      host_score     |-> starting_score,
      guest_score    |-> starting_score,
      host_legs      |-> 0,
      guest_legs     |-> 0 ]

IdleCall == [ pc |-> "idle", player |-> "host", score |-> 0, match |-> Absent ]

\* the columns recordThrow(who, score) writes after reading match
recordThrowUpdates(match, who, score) ==
    LET currentScore == IF who = "host" THEN match.host_score
                                          ELSE match.guest_score
        newScore == currentScore - score
        opponent == IF who = "host" THEN "guest" ELSE "host"
    IN
    IF newScore < 0 \/ newScore = 1
    THEN [ current_player |-> opponent ]
    ELSE IF newScore = 0
    THEN LET newLegs == IF who = "host" THEN match.host_legs + 1
                                            ELSE match.guest_legs + 1
             isMatchWon == newLegs >= match.legs_to_win
             status == IF isMatchWon THEN "completed" ELSE "in_progress"
         IN
         IF who = "host"
         THEN [ current_player |-> who, status |-> status,
                host_score  |-> match.starting_score,
                host_legs   |-> newLegs,
                guest_score |-> match.starting_score ]
         ELSE [ current_player |-> who, status |-> status,
                guest_score |-> match.starting_score,
                guest_legs  |-> newLegs,
                host_score  |-> match.starting_score ]
    ELSE IF who = "host"
         THEN [ current_player |-> opponent, host_score |-> newScore ]
         ELSE [ current_player |-> opponent, guest_score |-> newScore ]

\* update(updates).eq('id', matchId): the columns named are overwritten
updateMatchState(row, updates) ==
    [ f \in DOMAIN row |-> IF f \in DOMAIN updates THEN updates[f] ELSE row[f] ]

InitOnline ==
    /\ config \in [ startingScore : {121}, matchType : {"first_to"},
                    targetLegs : {1, 2} ]
    /\ player = createPlayerState("Player 1", "uuid-1")
    /\ prev = player
    /\ op = "createMatch"
    /\ visit = 0
    /\ result = NoResult
    /\ legStart = 0
    /\ wonAt = 0 - 1
    /\ checkouts = {}
    /\ heap = NoHeap
    /\ bot = NoBot
    /\ busts = 0
    /\ app = NoApp
    /\ online = [ row    |-> createMatch(config.startingScore, config.targetLegs),
                  start  |-> createMatch(config.startingScore, config.targetLegs),
                  calls  |-> << IdleCall, IdleCall >>,
                  rounds |-> 1 ]

\* recordThrow up to the end of its select
RecordThrowSelect(i) ==
    \E p \in OnlinePlayers, score \in OnlineScores :
        /\ online.calls[i].pc = "idle"
        /\ online' = [ online EXCEPT
                         !.calls[i] = [ pc |-> "read", player |-> p,
                                        score |-> score,
                                        match |-> Some(online.row) ] ]
        /\ op' = "recordThrow.select"
        /\ UNCHANGED <<app, busts, bot, config, player, prev, visit, result,
                       legStart, wonAt, checkouts, heap>>

\* recordThrow from its select to the end of its update
RecordThrowUpdate(i) ==
    LET c == online.calls[i] IN
    /\ c.pc = "read"
    /\ online' = [ online EXCEPT
                     !.row = updateMatchState(online.row,
                                 recordThrowUpdates(c.match[1], c.player, c.score)),
                     !.calls[i].pc = "done" ]
    /\ op' = "recordThrow.update"
    /\ UNCHANGED <<app, busts, bot, config, player, prev, visit, result,
                   legStart, wonAt, checkouts, heap>>

\* both calls have returned: two further calls may be made
NextRound ==
    /\ \A i \in 1..2 : online.calls[i].pc = "done"
    /\ online.rounds < MaxRounds
    /\ online' = [ online EXCEPT !.start = online.row,
                                 !.calls = << IdleCall, IdleCall >>,
                                 !.rounds = online.rounds + 1 ]
    /\ op' = "recordThrow.return"
    /\ UNCHANGED <<app, busts, bot, config, player, prev, visit, result,
                   legStart, wonAt, checkouts, heap>>

NextOnline ==
    \/ \E i \in 1..2 : RecordThrowSelect(i)
    \/ \E i \in 1..2 : RecordThrowUpdate(i)
    \/ NextRound

SpecOnline == InitOnline /\ [][NextOnline]_vars

(* ======================= properties of the engine ====================== *)

InRange(v) == v >= 0 /\ v <= 180

\* the last operation was applyThrow with an admissible visit score
Threw == op = "applyThrow" /\ InRange(visit)

\* C1 - Bust rule: for a visit in 0..180 the throw is reported as a bust
\* exactly when score - visit < 0 or score - visit = 1; on a bust newScore and
\* the returned state's score equal the old score and dartsThrown grows by 3.
C1_BustRule ==
    Threw =>
        /\ result.isBust <=> (prev.score - visit < 0 \/ prev.score - visit = 1)
        /\ processThrow(prev, visit).isBust = result.isBust
        /\ result.isBust =>
              /\ result.newScore = prev.score
              /\ player.score = prev.score
              /\ player.dartsThrown = prev.dartsThrown + 3

C1_Witness ==
    /\ Threw
    /\ prev.score - visit = 1
    /\ result.isBust
    /\ player.dartsThrown = prev.dartsThrown + 3

\* C2 - Checkout completeness: a visit in 0..180 equal to the score wins the
\* leg: isLegWon, not isBust, newScore 0, score 0, legs + 1, dartsThrown 0 and
\* the visit appended to history and matchHistory, whether or not the score is
\* one of VALID_CHECKOUTS.
C2_Checkout ==
    (Threw /\ prev.score - visit = 0) =>
        /\ result.isLegWon
        /\ ~result.isBust
        /\ result.newScore = 0
        /\ player.score = 0
        /\ player.legs = prev.legs + 1
        /\ player.dartsThrown = 0
        /\ player.history = Append(prev.history, visit)
        /\ player.matchHistory = Append(prev.matchHistory, visit)

C2_Witness ==
    /\ Threw
    /\ prev.score = visit
    /\ prev.score > 0
    /\ prev.score \notin VALID_CHECKOUTS
    /\ result.isLegWon
    /\ player.legs = prev.legs + 1

\* C3 - Score monotonicity: a visit in 0..180 that is neither a bust nor a
\* checkout gives newScore = score - visit > 0, stores it as the score, appends
\* the visit to both histories, adds 3 to dartsThrown and keeps legs
\* (501 then 140 gives 361, neither bust nor leg won).
C3_Ordinary ==
    /\ (Threw /\ prev.score - visit >= 2) =>
          /\ ~result.isBust
          /\ ~result.isLegWon
          /\ result.newScore = prev.score - visit
          /\ 0 < result.newScore
          /\ player.score = result.newScore
          /\ player.history = Append(prev.history, visit)
          /\ player.matchHistory = Append(prev.matchHistory, visit)
          /\ player.dartsThrown = prev.dartsThrown + 3
          /\ player.legs = prev.legs
    /\ LET r == applyThrow([ prev EXCEPT !.score = 501 ], 140) IN
          /\ r.result.newScore = 361
          /\ r.player.score = 361
          /\ ~r.result.isBust
          /\ ~r.result.isLegWon

C3_Witness ==
    /\ Threw
    /\ prev.score - visit >= 2
    /\ visit > 0
    /\ Len(prev.matchHistory) > 0
    /\ player.score = prev.score - visit
    /\ player.matchHistory = Append(prev.matchHistory, visit)

\* C4 - Invalid input rejection: a visit below 0 or above 180 returns
\* success = false with isBust, isLegWon, isMatchWon false and newScore the old
\* score, and the returned state is the input state in every field; no other
\* visit returns success = false.
C4_Rejected ==
    op = "applyThrow" =>
        /\ ~InRange(visit) =>
              /\ ~result.success
              /\ ~result.isBust
              /\ ~result.isLegWon
              /\ ~result.isMatchWon
              /\ result.newScore = prev.score
              /\ player = prev
        /\ ~result.success => ~InRange(visit)

C4_Witness ==
    /\ op = "applyThrow"
    /\ visit < 0
    /\ Len(prev.matchHistory) > 0
    /\ ~result.success
    /\ player = prev
C6_Threshold ==
    (op = "applyThrow" /\ result.isLegWon) =>
        (result.isMatchWon <=>
            IF config.matchType = "first_to"
                THEN player.legs >= config.targetLegs
                ELSE player.legs > FloorHalf(config.targetLegs))

C8_ScoreRange ==
    /\ 0 <= player.score
    /\ player.score <= config.startingScore

C8_Witness ==
    /\ op = "applyThrow"
    /\ InRange(visit)
    /\ prev.score - visit < 0
    /\ prev.score > 0
    /\ player.score = prev.score
    /\ player.score < config.startingScore

\* C9 - Leg/match state machine: applyThrow on a leg_complete state (score 0,
\* not reset yet) never awards a further leg, and once isMatchWon has been
\* returned no later applyThrow increases the player's legs.
C9_StateMachine ==
    /\ (op = "applyThrow" /\ prev.score = 0) => player.legs = prev.legs
    /\ wonAt >= 0 => player.legs <= wonAt

\* C10 - History scoping: matchHistory is only extended at its end, by the
\* visit of each accepted non-bust throw, and emptied only by
\* resetForNewMatch; history is emptied by both resets; history is the part
\* of matchHistory recorded since the last createPlayerState or reset.
C10_HistoryScoping ==
    /\ op = "applyThrow" =>
          player.matchHistory =
              IF result.success /\ ~result.isBust
                  THEN Append(prev.matchHistory, visit)
                  ELSE prev.matchHistory
    /\ op = "resetForNewLeg" =>
          /\ player.matchHistory = prev.matchHistory
          /\ player.history = <<>>
    /\ op = "resetForNewMatch" =>
          /\ player.matchHistory = <<>>
          /\ player.history = <<>>
    /\ legStart <= Len(player.matchHistory)
    /\ player.history =
          SubSeq(player.matchHistory, legStart + 1, Len(player.matchHistory))

C10_Witness ==
    /\ op = "applyThrow"
    /\ legStart > 0
    /\ Len(player.history) > 0
    /\ Len(player.matchHistory) = legStart + Len(player.history)
    /\ player.history # player.matchHistory

\* C11 - Average invariant: in every reachable state stats.average is
\* sum(matchHistory) / len(matchHistory) rounded to two decimals, halves up
\* (0 for an empty matchHistory); busted and rejected visits do not change
\* it; matchHistory [100, 140, 60] gives 100.00.
C11_Average ==
    LET n == Len(player.matchHistory)
        t == SumSeq(player.matchHistory)
        a == player.stats.average
    IN /\ IF n = 0 THEN a = 0
          ELSE 2 * n * a - n <= 200 * t /\ 200 * t < 2 * n * a + n
       /\ (op = "applyThrow" /\ (~result.success \/ result.isBust)) =>
             a = prev.stats.average
       /\ calculateAverage(<<100, 140, 60>>) = 10000

\* the bucket with the highest threshold not above v, for v >= 65
BucketFor(v) ==
    IF v >= 180 THEN "scores_180"
    ELSE IF v >= 170 THEN "scores_170_plus"
    ELSE IF v >= 140 THEN "scores_140_plus"
    ELSE IF v >= 100 THEN "scores_100_plus"
    ELSE IF v >= 90 THEN "scores_90_plus"
    ELSE "scores_65_plus"

\* the buckets whose counter differs between the stats before and after
ChangedBuckets == { b \in BucketNames : player.stats[b] # prev.stats[b] }

\* C12 as stated - Bucket exclusivity: for every visit score of 0..180
\* recorded by updateStats exactly one of the six buckets increases by one,
\* the one with the highest matching threshold, and the other five are
\* unchanged.
C12_ExactlyOneBucket ==
    op = "updateStats" =>
        /\ Cardinality(ChangedBuckets) = 1
        /\ \A b \in ChangedBuckets : player.stats[b] = prev.stats[b] + 1

\* C12 as amended - for every visit score of 65..180 exactly one bucket
\* increases by one, the one with the highest matching threshold, and the
\* other five are unchanged; for a visit score of 0..64 no bucket changes.
C12_Buckets ==
    op = "updateStats" =>
        /\ visit >= 65 =>
              /\ ChangedBuckets = { BucketFor(visit) }
              /\ player.stats[BucketFor(visit)] = prev.stats[BucketFor(visit)] + 1
        /\ visit < 65 => ChangedBuckets = {}
        /\ player.stats.best_leg = prev.stats.best_leg
        /\ player.stats.average = prev.stats.average

C12_Witness ==
    /\ op = "updateStats"
    /\ visit = 180
    /\ player.stats.scores_180 = prev.stats.scores_180 + 1
    /\ player.stats.scores_170_plus = prev.stats.scores_170_plus
    /\ prev.stats.scores_170_plus = 1

\* C13 - best_leg monotonicity: best_leg is null until the first leg win; at
\* a leg win it becomes min(previous best_leg, dartsThrown + 3), or
\* dartsThrown + 3 when it was null; applyThrow and resetForNewLeg never
\* increase it, a non-winning throw never changes it, and only
\* resetForNewMatch returns it to null.
C13_BestLeg ==
    LET old == prev.stats.best_leg
        new == player.stats.best_leg
    IN /\ player.legs = 0 => new = Absent
       /\ (op = "applyThrow" /\ result.isLegWon) =>
             new = IF old = Absent
                       THEN Some(prev.dartsThrown + 3)
                       ELSE Some(Min(old[1], prev.dartsThrown + 3))
       /\ (op = "applyThrow" /\ ~result.isLegWon) => new = old
       /\ op = "resetForNewLeg" => new = old
       /\ (op \in {"applyThrow", "resetForNewLeg"} /\ old # Absent) =>
             /\ new # Absent
             /\ new[1] <= old[1]
       /\ op = "resetForNewMatch" => new = Absent

C13_Witness ==
    /\ op = "applyThrow"
    /\ result.isLegWon
    /\ prev.stats.best_leg = Some(6)
    /\ prev.dartsThrown = 0
    /\ player.stats.best_leg = Some(3)

SetMax(S) == CHOOSE x \in S : \A y \in S : y <= x

\* C14 - highest_checkout: once a leg has been won this match
\* highest_checkout is the largest score held before a leg-winning throw of
\* the match; a leg win replaces it only by a larger pre-throw score, a
\* non-winning throw and resetForNewLeg leave it alone, and it is unset
\* before the first leg win.
C14_HighestCheckout ==
    LET old == prev.stats.highest_checkout
        new == player.stats.highest_checkout
    IN /\ (checkouts = {}) <=> (player.legs = 0)
       /\ checkouts = {} => new = Absent
       /\ checkouts # {} => new = Some(SetMax(checkouts))
       /\ (op = "applyThrow" /\ result.isLegWon /\ old # Absent) =>
             new = Some(Max(old[1], prev.score))
       /\ (op = "applyThrow" /\ ~result.isLegWon) => new = old
       /\ op = "resetForNewLeg" => new = old

C14_Witness ==
    /\ op = "applyThrow"
    /\ result.isLegWon
    /\ prev.score > 0
    /\ prev.stats.highest_checkout # Absent
    /\ prev.score < prev.stats.highest_checkout[1]
    /\ player.stats.highest_checkout = prev.stats.highest_checkout

\* stats.visit_history, an absent one read as the empty sequence
VisitHistory(stats) ==
    IF stats.visit_history = Absent THEN <<>> ELSE stats.visit_history[1]

\* C15 - visit_history mirror: in every state reached from createPlayerState
\* by applyThrow, resetForNewLeg and resetForNewMatch, stats.visit_history
\* has the contents of matchHistory (an absent visit_history being empty).
C15_VisitHistory == VisitHistory(player.stats) = player.matchHistory

C15_Witness ==
    /\ op = "applyThrow"
    /\ legStart > 0
    /\ result.success
    /\ ~result.isBust
    /\ ~result.isLegWon
    /\ player.stats.visit_history = Some(player.matchHistory)
    /\ player.history # player.matchHistory

\* C16 - dartsThrown invariant: in every reachable state dartsThrown is a
\* non-negative multiple of 3, and it is 0 in the state returned by
\* createPlayerState, resetForNewLeg, resetForNewMatch and a leg-winning
\* applyThrow.
C16_DartsThrown ==
    /\ player.dartsThrown >= 0
    /\ player.dartsThrown % 3 = 0
    /\ op \in {"createPlayerState", "resetForNewLeg", "resetForNewMatch"} =>
          player.dartsThrown = 0
    /\ (op = "applyThrow" /\ result.isLegWon) => player.dartsThrown = 0

C16_Witness ==
    /\ op = "applyThrow"
    /\ result.isLegWon
    /\ prev.dartsThrown = 6
    /\ player.dartsThrown = 0

\* C17 - resetForNewLeg: the returned state has score = startingScore, an
\* empty history and dartsThrown = 0, and the legs, sets, matchHistory, stats
\* (every field), id and name of the input state.
C17_ResetForNewLeg ==
    op = "resetForNewLeg" =>
        /\ player.score = config.startingScore
        /\ player.history = <<>>
        /\ player.dartsThrown = 0
        /\ player.legs = prev.legs
        /\ player.sets = prev.sets
        /\ player.matchHistory = prev.matchHistory
        /\ player.stats = prev.stats
        /\ player.id = prev.id
        /\ player.name = prev.name

C17_Witness ==
    /\ op = "resetForNewLeg"
    /\ prev.legs > 0
    /\ prev.dartsThrown > 0
    /\ prev.history # <<>>
    /\ prev.stats.best_leg # Absent
    /\ player.stats = prev.stats
    /\ player.score = config.startingScore

\* the state createPlayerState builds, written out field by field
FreshState(name, id) ==
    [ id           |-> id,
      name         |-> name,
      score        |-> config.startingScore,
      legs         |-> 0,
      sets         |-> 0,
      history      |-> <<>>,
      matchHistory |-> <<>>,
      stats        |-> [ scores_65_plus   |-> 0,
                         scores_90_plus   |-> 0,
                         scores_100_plus  |-> 0,
                         scores_140_plus  |-> 0,
                         scores_170_plus  |-> 0,
                         scores_180       |-> 0,
                         best_leg         |-> <<>>,
                         average          |-> 0,
                         highest_checkout |-> <<>>,
                         visit_history    |-> <<>> ],
      dartsThrown  |-> 0 ]

\* C18 - resetForNewMatch equals a fresh state: for every reachable state s,
\* resetForNewMatch(s) is field for field createPlayerState(s.name, s.id)
\* (score = startingScore, legs, sets, dartsThrown 0, histories empty, buckets
\* 0, best_leg unset, average 0, no highest_checkout), and resetForNewMatch
\* is idempotent.
C18_ResetForNewMatch ==
    /\ resetForNewMatch(player) = FreshState(player.name, player.id)
    /\ resetForNewMatch(player) = createPlayerState(player.name, player.id)
    /\ resetForNewMatch(resetForNewMatch(player)) = resetForNewMatch(player)
    /\ op = "resetForNewMatch" =>
          /\ player = FreshState(prev.name, prev.id)
          /\ resetForNewMatch(player) = player

C18_Witness ==
    /\ op = "resetForNewMatch"
    /\ prev.legs >= 2
    /\ prev.dartsThrown > 0
    /\ prev.stats.highest_checkout # Absent
    /\ prev.stats.visit_history # Absent
    /\ player = FreshState("Player 1", "uuid-1")

\* the addresses reachable from a player object
Reachable(mem, player_) ==
    LET p == mem[player_]
    IN {player_, p.history, p.matchHistory, p.stats}
          \cup (IF mem[p.stats].visit_history = Absent THEN {}
                ELSE {mem[p.stats].visit_history[1]})

\* the player read back from the store as a value
ReadPlayer(mem, player_) ==
    LET p == mem[player_]
        s == mem[p.stats]
    IN [ p EXCEPT !.history = mem[p.history],
                  !.matchHistory = mem[p.matchHistory],
                  !.stats = [ s EXCEPT !.visit_history =
                                IF s.visit_history = Absent THEN Absent
                                ELSE Some(mem[s.visit_history[1]]) ] ]

\* C19 - immutability of the argument: applyThrow (rejected, bust, leg win,
\* ordinary), resetForNewLeg and resetForNewMatch never modify the
\* PlayerState passed in: after the call every object reachable from the
\* argument (the player, its stats object, its history arrays) holds the
\* value it held before the call.
C19_Immutable ==
    heap.arg # 0 =>
        /\ \A x \in Reachable(heap.before, heap.arg) : heap.mem[x] = heap.before[x]
        /\ ReadPlayer(heap.mem, heap.arg) = ReadPlayer(heap.before, heap.arg)

\* C20 - bot domain closure: for every BotLevel of the catalogue, every
\* currentScore in 2..501 and every outcome of the random draws,
\* generateScore returns an integer in 0..180, so the engine never rejects a
\* bot visit (success is always true).
C20_BotDomain ==
    op = "generateScore" =>
        /\ bot.score # Absent
        /\ bot.score[1] \in 0..180
        /\ visit = bot.score[1]
        /\ result.success

\* the bust-avoiding override at its largest: 181 left, leave 8
C20_Witness ==
    /\ op = "generateScore"
    /\ bot.level.name = "beginner"
    /\ bot.currentScore = 181
    /\ bot.score = Some(173)
    /\ result.success
    /\ result.newScore = 8

\* the draws of the last call of generateScore
BotDraws == bot.draws[1]

\* C21 - bot checkout success wins the leg: generateScore attempts a checkout
\* exactly when currentScore <= 170 and currentScore is none of 159, 162,
\* 163, 165, 166, 168, 169; when the roll is below level.checkoutRate it
\* returns currentScore, and applyThrow of that value on a state whose score
\* is currentScore (2..170) yields isLegWon.
C21_CheckoutHit ==
    op = "generateScore" =>
        /\ BotDraws.attempt <=>
               /\ bot.currentScore <= 170
               /\ bot.currentScore \notin {159, 162, 163, 165, 166, 168, 169}
        /\ BotDraws.hit =>
               /\ bot.currentScore \in 2..170
               /\ bot.score = Some(bot.currentScore)
               /\ prev.score = bot.currentScore
               /\ result.success /\ result.isLegWon /\ ~result.isBust
               /\ player.score = 0
               /\ player.legs = prev.legs + 1

C21_Witness ==
    /\ op = "generateScore"
    /\ bot.level.name = "dartbot_3000"
    /\ bot.currentScore = 170
    /\ BotDraws.attempt /\ BotDraws.hit
    /\ visit = 170
    /\ result.isLegWon

\* C22 - a failed bot checkout neither wins nor busts: for every BotLevel and
\* every checkout-eligible currentScore in 2..170, when the roll fails the
\* value v returned by attemptCheckout, applied with applyThrow to a state
\* holding currentScore, leaves currentScore - v other than 0, 1 or negative.
C22_FailedCheckout ==
    (op = "generateScore" /\ BotDraws.attempt /\ ~BotDraws.hit) =>
        /\ ~result.isLegWon
        /\ ~result.isBust
        /\ bot.currentScore - visit \notin {0, 1}
        /\ bot.currentScore - visit >= 0

\* the scoring visit of the last call overrode its sample, which left at most
\* maxLeft or a negative score
Overridden(maxLeft) ==
    LET score == Max(0, Min(180, BotDraws.sample))
        left  == bot.currentScore - score
    IN bot.currentScore > 40 /\ (left < 0 \/ (left >= 1 - maxLeft /\ left <= 1))

\* what C23 asks of a scoring visit that overrides when Overridden(maxLeft)
BustAvoidance(maxLeft) ==
    (op = "generateScore" /\ ~BotDraws.attempt) =>
        LET score == Max(0, Min(180, BotDraws.sample)) IN
        IF Overridden(maxLeft)
        THEN \/ bot.currentScore - visit \in {32, 40, 36, 24, 16, 20, 8}
             \/ /\ bot.currentScore <= 40
                /\ visit = Max(0, bot.currentScore - 40)
        ELSE visit = score

\* C23 as stated - scoring-phase bust avoidance: the sampled score (rounded,
\* clamped to 0..180) is returned unchanged unless currentScore > 40 and the
\* sample would leave exactly 1 or less than 0; then the visit leaves one of
\* 32, 40, 36, 24, 16, 20, 8 when currentScore exceeds the chosen leave, else
\* it is max(0, currentScore - 40).  A sample leaving exactly 0 is kept.
C23_BustAvoidance == BustAvoidance(0)

\* C23 - scoring-phase bust avoidance, amended: the sampled score is returned
\* unchanged unless currentScore > 40 and the sample would leave 1, 0 or less
\* than 0; then the visit leaves one of 32, 40, 36, 24, 16, 20, 8 when
\* currentScore exceeds the chosen leave, else it is max(0, currentScore - 40).
C23_BustAvoidanceAtMostOne == BustAvoidance(1)

C23_Witness ==
    /\ op = "generateScore"
    /\ ~BotDraws.attempt
    /\ bot.currentScore = 180
    /\ BotDraws.sample = 180
    /\ bot.level.name = "pro"
    /\ visit = 148
    /\ result.newScore = 32

\* the values a failed checkout attempt can return at the state's level and
\* currentScore, less base
MissOffsets(base) ==
    { generateScore(bot.level, bot.currentScore, rnd) - base :
        rnd \in { d \in Draws(bot.level, bot.currentScore) :
                    /\ ~(d.roll < bot.level.checkoutRate)
                    /\ d.index = BotDraws.index } }

\* C24 - symmetric miss noise: in a failed checkout attempt the offset added
\* to the base score is symmetric about zero: for currentScore <= 40 it
\* ranges over exactly -5..+5 around floor(currentScore / 2), for
\* currentScore > 40 over exactly -10..+10 around currentScore less the
\* leave; +k is attainable whenever -k is.  (Stated where neither the floor
\* at 0 nor the clamp to 0..180 cuts the range.)
C24_SymmetricNoise ==
    (op = "generateScore" /\ BotDraws.attempt /\ ~BotDraws.hit) =>
        LET cs    == bot.currentScore
            leave == getIdealLeave(bot.level, BotDraws.index)
            base  == IF cs <= 40 THEN cs \div 2 ELSE cs - leave
            k     == IF cs <= 40 THEN 5 ELSE 10
        IN (base >= k /\ base + k <= 180) =>
               /\ MissOffsets(base) = (0 - k) .. k
               /\ \A o \in MissOffsets(base) : (0 - o) \in MissOffsets(base)

\* C25 - checkout suggestion domain: getSuggestedCheckout(r) returns a finish
\* for every remaining score r in 2..170 except 159, 162, 163, 165, 166, 168
\* and 169, and returns none for those seven and for every r outside 2..170
\* (0, 1 and r > 170 included).
C25_SuggestionDomain ==
    op = "getSuggestedCheckout" =>
        (result # Absent <=>
            visit \in (2..170) \ {159, 162, 163, 165, 166, 168, 169})

\* C26 - valid-checkout set: isValidCheckout(r) is true exactly for the r in
\* 2..170 that are not in INVALID_CHECKOUTS (159, 162, 163, 165, 166, 168,
\* 169), so it agrees with the bot's checkout eligibility on 2..170, and
\* every score with a suggested finish is a valid checkout.
C26_ValidCheckouts ==
    op = "isValidCheckout" =>
        /\ result <=> visit \in (2..170) \ {159, 162, 163, 165, 166, 168, 169}
        /\ visit \in 2..170 => (result <=> canCheckout(visit))
        /\ getSuggestedCheckout(visit) # Absent => result

\* C27 - score conservation: in every state reachable from createPlayerState
\* by applyThrow, resetForNewLeg and resetForNewMatch, score + sum(history) =
\* startingScore; busted and rejected visits contribute nothing, and right
\* after a leg win sum(history) = startingScore.
C27_ScoreConservation ==
    /\ player.score + SumSeq(player.history) = config.startingScore
    /\ (op = "applyThrow" /\ (result.isBust \/ ~result.success)) =>
           player.history = prev.history
    /\ (op = "applyThrow" /\ result.isLegWon) =>
           SumSeq(player.history) = config.startingScore

C27_Witness ==
    /\ op = "applyThrow"
    /\ result.isLegWon
    /\ prev.legs = 1
    /\ Len(prev.history) = 1
    /\ prev.dartsThrown = 3
    /\ visit > 0
    /\ player.score = 0
    /\ SumSeq(player.history) = config.startingScore

\* C28 - score 1 is unreachable: for every startingScore >= 2 no reachable
\* state has score 1; the score is 0 or in 2..startingScore, so every
\* in-progress score of at most 180 is finished by one visit equal to it.
C28_NeverOne ==
    /\ config.startingScore >= 2
    /\ player.score # 1
    /\ player.score = 0 \/ player.score \in 2..config.startingScore
    /\ player.score \in 2..180 =>
           LET r == applyThrow(player, player.score)
           IN r.result.isLegWon /\ r.player.score = 0

C28_Witness ==
    /\ op = "applyThrow"
    /\ visit = 120
    /\ prev.score = 121
    /\ result.isBust
    /\ player.score = 121
    /\ applyThrow(player, 121).result.isLegWon

\* what C29 asks of a ThrowResult r returned with the player state p
Consistent(r, p) ==
    /\ r.isMatchWon => r.isLegWon
    /\ r.isLegWon => (~r.isBust /\ r.newScore = 0)
    /\ ~r.success => (~r.isBust /\ ~r.isLegWon)
    /\ r.newScore = p.score

\* C29 - ThrowResult consistency: for every state and every integer visit the
\* result of applyThrow has isMatchWon => isLegWon, isLegWon => (not isBust
\* and newScore = 0), not success => (not isBust and not isLegWon), and
\* newScore equal to the score of the returned player state.
C29_ThrowResult ==
    /\ op = "applyThrow" => Consistent(result, player)
    /\ \A v \in Visits :
          LET r == applyThrow(player, v) IN Consistent(r.result, r.player)

C29_Witness ==
    /\ op = "applyThrow"
    /\ result.isMatchWon
    /\ result.isLegWon
    /\ ~result.isBust
    /\ result.newScore = 0
    /\ player.score = 0
    /\ prev.score = visit
    /\ visit > 0
    /\ applyThrow(player, 180).result.isBust
    /\ ~applyThrow(player, 181).result.success

\* number of entries of matchHistory in lo..hi
CountIn(matchHistory, lo, hi) ==
    Cardinality({ i \in 1..Len(matchHistory) :
                    matchHistory[i] >= lo /\ matchHistory[i] <= hi })

\* C30 - buckets mirror matchHistory: in every reachable state each of the six
\* bucket counters equals the number of entries of matchHistory in its range
\* ([65,89], [90,99], [100,139], [140,169], [170,179], {180}); the six sum to
\* the number of recorded visits of at least 65, and busted or rejected
\* visits are never counted.
C30_BucketsMirror ==
    LET h == player.matchHistory
        s == player.stats
    IN /\ s.scores_65_plus  = CountIn(h, 65, 89)
       /\ s.scores_90_plus  = CountIn(h, 90, 99)
       /\ s.scores_100_plus = CountIn(h, 100, 139)
       /\ s.scores_140_plus = CountIn(h, 140, 169)
       /\ s.scores_170_plus = CountIn(h, 170, 179)
       /\ s.scores_180      = CountIn(h, 180, 180)
       /\ s.scores_65_plus + s.scores_90_plus + s.scores_100_plus
             + s.scores_140_plus + s.scores_170_plus + s.scores_180
          = CountIn(h, 65, 180)
       /\ (op = "applyThrow" /\ (result.isBust \/ ~result.success)) =>
             /\ player.matchHistory = prev.matchHistory
             /\ \A b \in BucketNames : player.stats[b] = prev.stats[b]

C30_Witness ==
    /\ op = "applyThrow"
    /\ result.isBust
    /\ visit = 180
    /\ player.matchHistory = <<70, 120>>
    /\ player.stats.scores_65_plus = 1
    /\ player.stats.scores_100_plus = 1
    /\ player.stats.scores_180 = 0

\* C31 - busts count toward the leg's darts: for a leg begun by
\* createPlayerState, resetForNewLeg or resetForNewMatch, while the leg is in
\* progress dartsThrown = 3 * (len(history) + busts of the leg), and the dart
\* count offered to best_leg at the leg win is 3 * (recorded visits of the
\* leg + busted visits of the leg), though busted visits are not in history.
C31_BustsCount ==
    /\ player.score # 0 =>
           player.dartsThrown = 3 * (Len(player.history) + busts)
    /\ (op = "applyThrow" /\ result.isLegWon) =>
           LET offered == 3 * (Len(player.history) + busts)
               before  == prev.stats.best_leg
           IN /\ prev.dartsThrown + 3 = offered
              /\ player.stats.best_leg =
                    IF before = Absent \/ offered < before[1]
                    THEN Some(offered) ELSE before
    /\ (op = "applyThrow" /\ result.isBust) =>
           /\ player.history = prev.history
           /\ player.dartsThrown = prev.dartsThrown + 3

C31_Witness ==
    /\ op = "applyThrow"
    /\ result.isLegWon
    /\ busts = 2
    /\ player.history = <<50, 120>>
    /\ prev.dartsThrown = 9
    /\ player.stats.best_leg = Some(12)

\* C32 - the scoring phase never busts or finishes: for every BotLevel and
\* every currentScore that is not checkout-eligible (above 170, or one of
\* 159, 162, 163, 165, 166, 168, 169), every value v generateScore can return
\* has currentScore - v >= 2, so applying it neither busts nor wins the leg.
C32_ScoringPhase ==
    (/\ op = "generateScore"
     /\ \/ bot.currentScore > 170
        \/ bot.currentScore \in {159, 162, 163, 165, 166, 168, 169}) =>
        /\ ~BotDraws.attempt
        /\ bot.currentScore - visit >= 2
        /\ result.success /\ ~result.isBust /\ ~result.isLegWon
        /\ player.score = bot.currentScore - visit

C32_Witness ==
    /\ op = "generateScore"
    /\ bot.level.name = "pro"
    /\ bot.currentScore = 159
    /\ BotDraws.sample = 158
    /\ visit = 127
    /\ player.score = 32
    /\ ~result.isBust

\* C33 - skilled-bot setup shot: for a BotLevel with avg >= 80 (getIdealLeave
\* is always 32) and every checkout-eligible currentScore with
\* 40 < currentScore <= 170, a failed checkout attempt returns a visit v with
\* 23 <= currentScore - v <= 42, so it neither busts nor wins the leg.
C33_SkilledSetup ==
    (/\ op = "generateScore"
     /\ bot.level.avg >= 80
     /\ bot.currentScore > 40 /\ bot.currentScore <= 170
     /\ BotDraws.attempt /\ ~BotDraws.hit) =>
        /\ \A index \in 0..6 : getIdealLeave(bot.level, index) = 32
        /\ bot.currentScore - visit >= 23
        /\ bot.currentScore - visit <= 42
        /\ ~result.isBust /\ ~result.isLegWon

C33_Witness ==
    /\ op = "generateScore"
    /\ bot.level.name = "dartbot_3000"
    /\ bot.currentScore = 170
    /\ BotDraws.attempt /\ ~BotDraws.hit
    /\ BotDraws.variance = 19
    /\ visit = 147
    /\ result.newScore = 23

\* C34 - bot leg liveness: from createPlayerState with startingScore in
\* {501, 301, 170, 121} and any catalogue BotLevel, when every visit is
\* generateScore(score) applied with applyThrow, no in-progress score is a
\* dead end and under fair random draws the leg is eventually won.
C34_BotLegWon ==
    (bot.currentScore # 0) ~> (bot.currentScore = 0 /\ result.isLegWon)

C34_Witness ==
    /\ op = "generateScore"
    /\ config.startingScore = 501
    /\ bot.level.name = "beginner"
    /\ bot.currentScore = 0
    /\ result.isLegWon

\* the App's player n
AppPlayer(a, n) == IF n = 1 THEN a.player1[1] ELSE a.player2[1]

OtherPlayer(n) == IF n = 1 THEN 2 ELSE 1

\* C35 - App keeps the turn on rejected input: when handleEnter's
\* applyThrow rejects the entered visit (success = false, e.g. 181),
\* neither player's state changes and currentPlayer is unchanged.
C35_KeepsTurn ==
    [][ (op' = "handleEnter" /\ ~result'.success)
          => /\ app'.player1 = app.player1
             /\ app'.player2 = app.player2
             /\ app'.currentPlayer = app.currentPlayer ]_vars

\* C36 - App turn order: in handleEnter, after a bust the active player does
\* not change; after an ordinary scoring visit the turn passes to the other
\* player; after a leg win that does not win the match both players are
\* reset with resetForNewLeg and the player who lost the leg throws first.
C36_TurnOrder ==
    [][ (op' = "handleEnter" /\ result'.success)
          => LET thrower == app.currentPlayer
                 other   == OtherPlayer(thrower)
             IN
             /\ result'.isBust => app'.currentPlayer = thrower
             /\ (~result'.isBust /\ ~result'.isLegWon)
                   => /\ app'.currentPlayer = other
                      /\ AppPlayer(app', thrower) = player'
                      /\ AppPlayer(app', other) = AppPlayer(app, other)
             /\ (result'.isLegWon /\ ~result'.isMatchWon)
                   => /\ AppPlayer(app', thrower) = resetForNewLeg(player')
                      /\ AppPlayer(app', other)
                            = resetForNewLeg(AppPlayer(app, other))
                      /\ AppPlayer(app', thrower).legs
                            = AppPlayer(app, thrower).legs + 1
                      /\ AppPlayer(app', other).legs = AppPlayer(app, other).legs
                      /\ app'.currentPlayer = other
                      /\ app'.screen = "game" ]_vars

\* player 2 has won a leg that does not win the match: player 1 throws next
C36_Witness ==
    /\ op = "handleEnter"
    /\ result.isLegWon /\ ~result.isMatchWon
    /\ prev.name = "Player 2"
    /\ app.screen = "game"
    /\ app.currentPlayer = 1
    /\ app.player2[1].legs = 1
    /\ app.player2[1].score = config.startingScore
    /\ app.player1[1].history = <<>>

\* C37 - App match invariant: startingScore is one of 501, 301, 170, 121 and
\* targetLegs one of 1, 3, 5, 7, 9, 11; whenever the game screen is shown both
\* players have a score in 2..startingScore and fewer than legsNeeded legs;
\* the result screen is shown exactly when the last throw returned
\* isMatchWon, the winner shown is the player who threw it and holds exactly
\* legsNeeded legs, and the other player holds fewer.
C37_MatchInvariant ==
    /\ app.engine => /\ config.startingScore \in {501, 301, 170, 121}
                     /\ config.targetLegs \in {1, 3, 5, 7, 9, 11}
    /\ app.screen = "game"
         => \A n \in {1, 2} :
               /\ AppPlayer(app, n).score \in 2..config.startingScore
               /\ AppPlayer(app, n).legs < legsNeeded
    /\ app.screen = "result" <=> (op = "handleEnter" /\ result.isMatchWon)
    /\ app.screen = "result"
         => /\ app.winner = Some(player.name)
            /\ AppPlayer(app, app.currentPlayer) = player
            /\ player.id = prev.id
            /\ player.legs = legsNeeded
            /\ AppPlayer(app, OtherPlayer(app.currentPlayer)).legs < legsNeeded

\* a best-of-3 match won 2 legs to 1
C37_Witness ==
    /\ app.screen = "result"
    /\ config.matchType = "best_of"
    /\ config.targetLegs = 3
    /\ app.winner = Some("Player 1")
    /\ app.player1[1].legs = 2
    /\ app.player2[1].legs = 1

\* recordThrow(player, score) run alone on row
recordThrowAlone(row, c) ==
    updateMatchState(row, recordThrowUpdates(row, c.player, c.score))

\* the columns the claim compares
Stored(row) ==
    << row.host_score, row.guest_score, row.host_legs, row.guest_legs,
       row.current_player >>

\* C38 - online recordThrow is atomic under interleaving: when two
\* recordThrow calls for the same match have both returned, whatever the
\* interleaving of their selects and updates, the stored host_score,
\* guest_score, host_legs, guest_legs and current_player equal those produced
\* by one of the two serial executions of the calls from the row they found.
C38_Serializable ==
    (\A i \in 1..2 : online.calls[i].pc = "done")
        => LET c1 == online.calls[1]
               c2 == online.calls[2]
           IN Stored(online.row)
                \in { Stored(recordThrowAlone(recordThrowAlone(online.start, c1), c2)),
                      Stored(recordThrowAlone(recordThrowAlone(online.start, c2), c1)) }

====
